---- MODULE Spec2Model ----
(***************************************************************************)
(* Hybrid retrieval and ingestion pipeline of the medical MCP server.      *)
(*                                                                         *)
(* The operations modelled, each with its own specification:               *)
(*   SpecChunk   chunkText and handleChunkAndEmbed (embedding tools)       *)
(*   SpecLoad    lazy loading of the local embedding model                 *)
(*               (loadEmbedder, LocalEmbeddingService)                     *)
(*   SpecSearch  handleSearchDocuments over MongoDBClient.vectorSearch /   *)
(*               textSearch / textSearchFallback                           *)
(*   SpecHybrid  handleHybridSearch over MongoDBClient.hybridSearch and    *)
(*               the same three searches                                   *)
(*   SpecUpload  handleUploadDocument                                      *)
(*   SpecServer  the tool-call dispatchers of server.ts, stdio and HTTP    *)
(*   SpecSim     calculateSimilarity and findSimilarTexts of the two       *)
(*               embedding services                                        *)
(*   SpecBatch   GoogleEmbeddingService.generateEmbeddings                 *)
(*   SpecPrep    preprocessText of the embedding services                  *)
(*   SpecFormat  the formatting of results in handleSearchDocuments,       *)
(*               handleHybridSearch and handleListDocuments                *)
(*   SpecExtract handleExtractMedicalEntities and updateDocument           *)
(*   SpecSimilar handleFindSimilarCases over MongoDBClient.vectorSearch    *)
(*   SpecLifecycle  LocalEmbeddingService: initialize, generateEmbedding,  *)
(*               isReady and shutdown under concurrent calls               *)
(* Scores, weights and thresholds are held in hundredths (0.3 is 30); a    *)
(* fused score, a sum of products score * weight, in ten-thousandths.      *)
(***************************************************************************)
EXTENDS Integers, Sequences, FiniteSets, TLC

VARIABLES
  \* ---- chunking (local-embedding-tools.ts / google-embedding-tools.ts)
  cWords,        \* text.split(/\s+/): the words of args.text, each by its length
  cArgSize,      \* args.chunkSize (Undef when omitted)
  cArgOverlap,   \* args.overlap (Undef when omitted)
  cPc,           \* position of handleChunkAndEmbed
  chunkSize,     \* const chunkSize of the handler
  overlap,       \* const overlap of the handler
  i,             \* loop index of chunkText
  chunks,        \* chunks pushed so far, each the sequence of its words
  iter,          \* loop bodies of chunkText executed so far
  j,             \* loop index of the embedding loop
  successfulChunks,
  stored,        \* chunk documents inserted: <<chunkIndex, totalChunks, text>>
  cAttempts,     \* passes of the embedding loop: [chunk, ok]
  cResp,         \* the handler's response
  \* ---- model loading (loadEmbedder, LocalEmbeddingService)
  lPc,           \* position of each caller
  lKind,         \* which entry point each caller uses
  toolEmbedder,  \* module-level `embedder` of local-embedding-tools.ts
  toolLoads,     \* pipeline(...) calls started by loadEmbedder
  svcEmbedder,   \* LocalEmbeddingService.embedder
  isLoading,     \* LocalEmbeddingService.isLoading
  svcLoads,      \* pipeline(...) calls started by initialize
  lSawLoading,   \* callers whose initialize() returned on the isLoading guard
  \* ---- retrieval (mongodb-client.js, document-tools.ts, google-embedding-tools.ts)
  sOp,           \* the tool called
  sArgs,         \* its arguments
  vScore,        \* storage: vectorSearchScore of each document for the query
  tScore,        \* storage: searchScore of each document for the query
  idType,        \* storage: the type of the documents' _id
  sPc,           \* position of the handler
  sTrace,        \* storage queries issued so far: [tier, query, ok]
  vectorResults, \* what vectorSearch returned
  textResults,   \* what textSearch returned
  sResults,      \* searchResults / hybridSearch's return value
  sResp,         \* the handler's response
  \* ---- upload (document-tools.ts handleUploadDocument)
  uArgs,         \* args: content, file source, metadata.processed
  uPc,           \* position of the handler
  extractedText, \* let extractedText
  medicalEntities, \* number of entities found (Undef before tagging)
  embedding,     \* the document embedding ("none" before it is generated)
  uStages,       \* stages completed so far, in order
  documents,     \* documents inserted into the collection
  uResp,         \* the handler's response
  \* ---- tool-call dispatch (server.ts)
  dMode,         \* "stdio": the CallToolRequestSchema handler; "http": handleToolCall
  dName,         \* request.params.name
  dDocumentId,   \* whether args.documentId is given
  dPc,           \* position of the dispatcher
  dHandler,      \* the handler the switch selected
  dFailure,      \* the value raised inside the call, if any: <<>> or <<e>>
  dResp,         \* what the dispatcher gave back to its caller
  \* ---- similarity (LocalEmbeddingService / GoogleEmbeddingService)
  mService,      \* which service's findSimilarTexts is called
  mQuery,        \* queryEmbedding
  mCandidates,   \* candidateEmbeddings, the id of each being its index
  mThreshold,    \* the threshold argument (Undef when omitted)
  mPc,           \* position of findSimilarTexts
  mSims,         \* outcomes of the calculateSimilarity calls made so far
  mResp,         \* what findSimilarTexts gave back
  \* ---- batch embedding (GoogleEmbeddingService.generateEmbeddings)
  isInitialized, \* GoogleEmbeddingService.isInitialized
  bCall,         \* the method of the service that is called
  bTexts,        \* texts.length; text k stands for texts[k - 1]
  bPc,           \* position of generateEmbeddings
  bDepth,        \* nested initialize() calls on the stack
  bI,            \* loop variable i
  bInFlight,     \* texts whose generateEmbedding call has not settled
  bOrder,        \* texts of the current batch in the order their calls settled
  bFailed,       \* whether an embed call of the current batch was rejected
  embeddings,    \* const embeddings: the text each vector was made from
  bBatches,      \* batches started
  bDelays,       \* setTimeout delays awaited
  bResp,         \* what generateEmbeddings gave back
  \* ---- text preprocessing (preprocessText of the embedding services)
  pText,         \* the text preprocessText is called with, as its characters
  pPc,           \* "call", "once" after one application, "twice" after two
  pOnce,         \* preprocessText(text)
  pTwice,        \* preprocessText(preprocessText(text))
  \* ---- result formatting (handleSearchDocuments, handleHybridSearch, handleListDocuments)
  fOp,           \* the handler that formats
  fDocument,     \* the stored document: content (by its length) and entities
  fEntities,     \* result.relevantEntities (Absent when the result has none)
  fOriginal,     \* the stored document as it was before the call
  fPc,           \* "call" before the map callback, "done" after it
  fFormatted,    \* the formatted result
  \* ---- entity extraction (medical-tools.js: handleExtractMedicalEntities)
  xArgs,         \* args.documentId, and the entities the NER call and filter yield
  xIdType,       \* the type of the stored documents' _id
  xDocs,         \* the stored documents
  xBefore,       \* the stored documents as they were before the call
  xPc,           \* position in the handler
  xModified,     \* what updateDocument returned: modifiedCount > 0
  xResp          \* the response

chunkVars == <<cWords, cArgSize, cArgOverlap, cPc, chunkSize, overlap, i, chunks,
               iter, j, successfulChunks, stored, cAttempts, cResp>>
loadVars == <<lPc, lKind, toolEmbedder, toolLoads, svcEmbedder, isLoading, svcLoads,
              lSawLoading>>
searchVars == <<sOp, sArgs, vScore, tScore, idType, sPc, sTrace, vectorResults,
                textResults, sResults, sResp>>
uploadVars == <<uArgs, uPc, extractedText, medicalEntities, embedding, uStages,
                documents, uResp>>
serverVars == <<dMode, dName, dDocumentId, dPc, dHandler, dFailure, dResp>>
simVars == <<mService, mQuery, mCandidates, mThreshold, mPc, mSims, mResp>>
batchVars == <<isInitialized, bCall, bTexts, bPc, bDepth, bI, bInFlight, bOrder,
               bFailed, embeddings, bBatches, bDelays, bResp>>
prepVars ==
  <<pText, pPc, pOnce, pTwice>>
formatVars ==
  <<fOp, fDocument, fEntities, fOriginal, fPc, fFormatted>>
extractVars ==
  <<xArgs, xIdType, xDocs, xBefore, xPc, xModified, xResp>>
vars ==
  <<chunkVars, loadVars, searchVars, uploadVars, serverVars, simVars,
    batchVars, prepVars, formatVars, extractVars>>

\* What an action of one operation leaves alone: the state of the others.
otherThanChunk ==
  <<loadVars, searchVars, uploadVars, serverVars, simVars, batchVars,
    prepVars, formatVars, extractVars>>
otherThanLoad ==
  <<chunkVars, searchVars, uploadVars, serverVars, simVars, batchVars,
    prepVars, formatVars, extractVars>>
otherThanSearch ==
  <<chunkVars, loadVars, uploadVars, serverVars, simVars, batchVars,
    prepVars, formatVars, extractVars>>
otherThanUpload ==
  <<chunkVars, loadVars, searchVars, serverVars, simVars, batchVars,
    prepVars, formatVars, extractVars>>
otherThanServer ==
  <<chunkVars, loadVars, searchVars, uploadVars, simVars, batchVars,
    prepVars, formatVars, extractVars>>
otherThanSim ==
  <<chunkVars, loadVars, searchVars, uploadVars, serverVars, batchVars,
    prepVars, formatVars, extractVars>>
otherThanBatch ==
  <<chunkVars, loadVars, searchVars, uploadVars, serverVars, simVars,
    prepVars, formatVars, extractVars>>
otherThanPrep ==
  <<chunkVars, loadVars, searchVars, uploadVars, serverVars, simVars,
    batchVars, formatVars, extractVars>>
otherThanFormat ==
  <<chunkVars, loadVars, searchVars, uploadVars, serverVars, simVars,
    batchVars, prepVars, extractVars>>
otherThanExtract ==
  <<chunkVars, loadVars, searchVars, uploadVars, serverVars, simVars,
    batchVars, prepVars, formatVars>>

\* An optional argument that the caller left out (undefined).
Undef == -1

\* JavaScript `a || d` on an optional number: undefined and 0 are both falsy.
OrDefault(a, d) == IF a = Undef \/ a = 0 THEN d ELSE a

Min(a, b) == IF a < b THEN a ELSE b
Max(a, b) == IF a > b THEN a ELSE b

RECURSIVE SumSeq(_)
SumSeq(s) == IF s = <<>> THEN 0 ELSE Head(s) + SumSeq(Tail(s))

(***************************************************************************)
(* Chunking                                                                *)
(***************************************************************************)

\* ---- bounds of the chunking model
MaxWords == 5
MaxArg == 3
\* Loop bodies of chunkText the model follows; a loop that advances needs at
\* most one body per word, so the cap only cuts loops that do not advance.
MaxIter == MaxWords + 2

\* ---- program constants
DefaultChunkSize == 500
DefaultOverlap == 100
MinChunkChars == 50
MinTextChars == 100

\* Word lengths the model draws from; 0 is the empty string that split(/\s+/)
\* yields before leading or after trailing whitespace.
WordLens == {20, 60}

RECURSIVE SeqsUpTo(_, _)
SeqsUpTo(S, n) ==
  IF n = 0 THEN {<<>>}
  ELSE LET shorter == SeqsUpTo(S, n - 1)
       IN shorter \cup {Append(s, x) : s \in {t \in shorter : Len(t) = n - 1}, x \in S}

\* The results split(/\s+/) can give: non-empty words, with an empty first
\* and/or last word when the text starts or ends with whitespace.
SplitResults ==
  LET core == SeqsUpTo(WordLens, MaxWords) \ {<<>>}
  IN  core
      \cup {<<0>>}
      \cup {<<0>> \o w : w \in {c \in core : Len(c) < MaxWords}}
      \cup {w \o <<0>> : w \in {c \in core : Len(c) < MaxWords}}

\* text.length: the words joined by one whitespace character each.
TextLength(words) == SumSeq(words) + Len(words) - 1

\* Array.prototype.slice(start, end), 0-based, negative indexes counted from the end.
JsSlice(s, start, end) ==
  LET n == Len(s)
      k == IF start < 0 THEN Max(n + start, 0) ELSE Min(start, n)
      f == IF end < 0 THEN Max(n + end, 0) ELSE Min(end, n)
  IN  IF f > k THEN SubSeq(s, k + 1, f) ELSE <<>>

\* chunk.trim().length of words.slice(..).join(" ")
TrimmedLength(ws) ==
  LET n == Len(ws)
      lead == IF n > 0 /\ ws[1] = 0 THEN 1 ELSE 0
      trail == IF n > 1 /\ ws[n] = 0 THEN 1 ELSE 0
  IN  IF SumSeq(ws) = 0 THEN 0 ELSE SumSeq(ws) + (n - 1) - lead - trail

\* ---- the ranges of the tool's input schema
SchemaMinChunkSize == 50
SchemaMaxChunkSize == 1000
SchemaMaxOverlap == 200

\* The handler runs on whatever arguments it is given: small values, for
\* windows within the model's texts, and the schema's smallest chunkSize.
InitChunk ==
  /\ cWords \in SplitResults
  /\ cArgSize \in {Undef} \cup 1..MaxArg \cup {SchemaMinChunkSize}
  /\ cArgOverlap \in {Undef} \cup 0..MaxArg
  /\ cPc = "call"
  /\ chunkSize = 0
  /\ overlap = 0
  /\ i = 0
  /\ chunks = <<>>
  /\ iter = 0
  /\ j = 0
  /\ successfulChunks = 0
  /\ stored = <<>>
  /\ cAttempts = <<>>
  /\ cResp = [success |-> "none"]

IdleChunk ==
  /\ cWords = <<>>
  /\ cArgSize = Undef
  /\ cArgOverlap = Undef
  /\ cPc = "idle"
  /\ chunkSize = 0
  /\ overlap = 0
  /\ i = 0
  /\ chunks = <<>>
  /\ iter = 0
  /\ j = 0
  /\ successfulChunks = 0
  /\ stored = <<>>
  /\ cAttempts = <<>>
  /\ cResp = [success |-> "none"]

\* handleChunkAndEmbed up to the call of chunkText: the length check and the
\* defaults of chunkSize and overlap.
ChunkCall ==
  /\ cPc = "call"
  /\ IF TextLength(cWords) < MinTextChars
       THEN /\ cPc' = "done"
            /\ cResp' = [success |-> "false"]
            /\ UNCHANGED <<chunkSize, overlap>>
       ELSE /\ chunkSize' = OrDefault(cArgSize, DefaultChunkSize)
            /\ overlap' = OrDefault(cArgOverlap, DefaultOverlap)
            /\ cPc' = "loop"
            /\ UNCHANGED cResp
  /\ UNCHANGED <<cWords, cArgSize, cArgOverlap, i, chunks, iter, j,
                 successfulChunks, stored, cAttempts>>
  /\ UNCHANGED otherThanChunk

\* The increment of chunkText's for loop.
ChunkAdvance(idx, size, ovl) == idx + (size - ovl)

\* One pass of chunkText's for loop: the test i < words.length, the body and
\* the increment.  The loop has no other exit.
ChunkLoop ==
  /\ cPc = "loop"
  /\ IF i < Len(cWords)
       THEN LET chunk == JsSlice(cWords, i, i + chunkSize)
            IN  /\ iter < MaxIter
                /\ chunks' = IF TrimmedLength(chunk) > MinChunkChars
                               THEN Append(chunks, chunk) ELSE chunks
                /\ i' = ChunkAdvance(i, chunkSize, overlap)
                /\ iter' = iter + 1
                /\ UNCHANGED <<cPc, cResp>>
       ELSE \* chunkText returns; the local tools then await loadEmbedder(),
            \* whose failure ends the handler in its outer catch
            /\ \E loaded \in BOOLEAN :
                 IF loaded
                   THEN cPc' = "embed" /\ UNCHANGED cResp
                   ELSE cPc' = "done" /\ cResp' = [success |-> "false"]
            /\ UNCHANGED <<chunks, i, iter>>
  /\ UNCHANGED <<cWords, cArgSize, cArgOverlap, chunkSize, overlap, j,
                 successfulChunks, stored, cAttempts>>
  /\ UNCHANGED otherThanChunk

\* chunkIds: the id insertOne gave each stored chunk, here the chunk's index.
ChunkIds == [k \in 1..Len(stored) |-> stored[k][1]]

\* Mutant of EmbedResponse: a failed chunk fails the whole operation.
EmbedResponseAllOrNothing ==
  IF successfulChunks = Len(chunks)
    THEN [success |-> "true", totalChunks |-> Len(chunks),
          successfulChunks |-> successfulChunks, chunkIds |-> ChunkIds,
          chunkSize |-> chunkSize, overlap |-> overlap]
    ELSE [success |-> "false"]

\* The response after the per-chunk loop.
EmbedResponse ==
  [success |-> "true", totalChunks |-> Len(chunks),
   successfulChunks |-> successfulChunks, chunkIds |-> ChunkIds,
   chunkSize |-> chunkSize, overlap |-> overlap]

\* Mutant of ChunkDoc: the index counts the chunks stored so far.
ChunkDocBySuccessCount(idx) ==
  <<successfulChunks, Len(chunks), chunks[idx + 1]>>

\* chunkDoc: {chunkIndex: i, totalChunks: chunks.length, text: chunk, ...}
ChunkDoc(idx) == <<idx, Len(chunks), chunks[idx + 1]>>

\* One pass of the per-chunk loop: embed the chunk and insert it; a failure
\* of either is logged and the chunk is skipped.
ChunkEmbed ==
  /\ cPc = "embed"
  /\ IF j < Len(chunks)
       THEN /\ \E ok \in BOOLEAN :
                 /\ cAttempts' = Append(cAttempts, [chunk |-> j, ok |-> ok])
                 /\ IF ok
                      THEN /\ stored' = Append(stored, ChunkDoc(j))
                           /\ successfulChunks' = successfulChunks + 1
                      ELSE UNCHANGED <<stored, successfulChunks>>
            /\ j' = j + 1
            /\ UNCHANGED <<cPc, cResp>>
       ELSE /\ cPc' = "done"
            /\ cResp' = EmbedResponse
            /\ UNCHANGED <<j, stored, successfulChunks, cAttempts>>
  /\ UNCHANGED <<cWords, cArgSize, cArgOverlap, chunkSize, overlap, i, chunks, iter>>
  /\ UNCHANGED otherThanChunk

(***************************************************************************)
(* Loading of the local embedding model                                    *)
(***************************************************************************)

\* ---- bound: concurrent callers
NCallers == 3
Callers == 1..NCallers

\* Entry points: loadEmbedder() of the embedding tools, and
\* LocalEmbeddingService.initialize() / generateEmbedding().
CallerKinds == {"tool", "initialize", "generate"}

InitLoad ==
  /\ lKind \in [Callers -> CallerKinds]
  /\ lPc = [c \in Callers |-> "idle"]
  /\ toolEmbedder = "null"
  /\ toolLoads = 0
  /\ svcEmbedder = "null"
  /\ isLoading = FALSE
  /\ svcLoads = 0
  /\ lSawLoading = {}

IdleLoad ==
  /\ lKind = [c \in Callers |-> "tool"]
  /\ lPc = [c \in Callers |-> "off"]
  /\ toolEmbedder = "null"
  /\ toolLoads = 0
  /\ svcEmbedder = "null"
  /\ isLoading = FALSE
  /\ svcLoads = 0
  /\ lSawLoading = {}

\* loadEmbedder's guard: whether this call starts pipeline(...).
ToolMustLoad == toolEmbedder = "null"

\* loadEmbedder() up to its await: `if (!embedder) embedder = await pipeline(..)`.
ToolCall(c) ==
  /\ lKind[c] = "tool" /\ lPc[c] = "idle"
  /\ IF ToolMustLoad
       THEN /\ toolLoads' = toolLoads + 1
            /\ lPc' = [lPc EXCEPT ![c] = "loading"]
       ELSE /\ lPc' = [lPc EXCEPT ![c] = "ready"]
            /\ UNCHANGED toolLoads
  /\ UNCHANGED <<lKind, toolEmbedder, svcEmbedder, isLoading, svcLoads, lSawLoading>>
  /\ UNCHANGED otherThanLoad

\* pipeline(...) resolves: the assignment to `embedder` and the return.
ToolLoadResolve(c) ==
  /\ lKind[c] = "tool" /\ lPc[c] = "loading"
  /\ toolEmbedder' = "loaded"
  /\ lPc' = [lPc EXCEPT ![c] = "ready"]
  /\ UNCHANGED <<lKind, toolLoads, svcEmbedder, isLoading, svcLoads, lSawLoading>>
  /\ UNCHANGED otherThanLoad

\* pipeline(...) rejects: loadEmbedder throws into the handler's catch.
ToolLoadReject(c) ==
  /\ lKind[c] = "tool" /\ lPc[c] = "loading"
  /\ lPc' = [lPc EXCEPT ![c] = "loadFailed"]
  /\ UNCHANGED <<lKind, toolEmbedder, toolLoads, svcEmbedder, isLoading, svcLoads,
                 lSawLoading>>
  /\ UNCHANGED otherThanLoad

\* initialize()'s guard `if (this.embedder || this.isLoading) return`.
InitializeReturnsEarly == svcEmbedder # "null" \/ isLoading

\* initialize() up to its await, entered directly or from generateEmbedding's
\* `if (!this.embedder) await this.initialize()`.
SvcCall(c) ==
  /\ lKind[c] \in {"initialize", "generate"} /\ lPc[c] = "idle"
  /\ IF lKind[c] = "generate" /\ svcEmbedder # "null"
       THEN /\ lPc' = [lPc EXCEPT ![c] = "invoke"]
            /\ UNCHANGED <<isLoading, svcLoads, lSawLoading>>
       ELSE IF InitializeReturnsEarly
         THEN /\ lPc' = [lPc EXCEPT ![c] = "initReturned"]
              /\ lSawLoading' = IF isLoading THEN lSawLoading \cup {c} ELSE lSawLoading
              /\ UNCHANGED <<isLoading, svcLoads>>
         ELSE /\ isLoading' = TRUE
              /\ svcLoads' = svcLoads + 1
              /\ lPc' = [lPc EXCEPT ![c] = "loading"]
              /\ UNCHANGED lSawLoading
  /\ UNCHANGED <<lKind, toolEmbedder, toolLoads, svcEmbedder>>
  /\ UNCHANGED otherThanLoad

\* Mutant of LoadingAfterSettle: initialize() without its finally block.
LoadingAfterSettleKept == isLoading

\* finally { this.isLoading = false }
LoadingAfterSettle == FALSE

\* pipeline(...) resolves inside initialize(): the assignment and the finally.
SvcLoadResolve(c) ==
  /\ lKind[c] \in {"initialize", "generate"} /\ lPc[c] = "loading"
  /\ svcEmbedder' = "loaded"
  /\ isLoading' = LoadingAfterSettle
  /\ lPc' = [lPc EXCEPT ![c] = "initReturned"]
  /\ UNCHANGED <<lKind, toolEmbedder, toolLoads, svcLoads, lSawLoading>>
  /\ UNCHANGED otherThanLoad

\* pipeline(...) rejects inside initialize(): the rethrow and the finally.
SvcLoadReject(c) ==
  /\ lKind[c] \in {"initialize", "generate"} /\ lPc[c] = "loading"
  /\ isLoading' = LoadingAfterSettle
  /\ lPc' = [lPc EXCEPT ![c] = "loadFailed"]
  /\ UNCHANGED <<lKind, toolEmbedder, toolLoads, svcEmbedder, svcLoads, lSawLoading>>
  /\ UNCHANGED otherThanLoad

\* The caller resumes after `await this.initialize()`: initialize's caller is
\* done, generateEmbedding goes on to call this.embedder(...).
SvcResume(c) ==
  /\ lPc[c] = "initReturned"
  /\ lPc' = [lPc EXCEPT ![c] = IF lKind[c] = "generate" THEN "invoke" ELSE "done"]
  /\ UNCHANGED <<lKind, toolEmbedder, toolLoads, svcEmbedder, isLoading, svcLoads,
                 lSawLoading>>
  /\ UNCHANGED otherThanLoad

\* generateEmbedding's `await this.embedder(cleanedText, ..)`: calling null
\* throws a TypeError, which the catch rethrows as "Embedding generation failed".
SvcInvoke(c) ==
  /\ lPc[c] = "invoke"
  /\ IF svcEmbedder = "null"
       THEN lPc' = [lPc EXCEPT ![c] = "invokedNull"]
       ELSE \E ok \in BOOLEAN :
              lPc' = [lPc EXCEPT ![c] = IF ok THEN "done" ELSE "embedFailed"]
  /\ UNCHANGED <<lKind, toolEmbedder, toolLoads, svcEmbedder, isLoading, svcLoads,
                 lSawLoading>>
  /\ UNCHANGED otherThanLoad

\* shutdown(): this.embedder = null.
SvcShutdown(c) ==
  /\ lKind[c] = "shutdown" /\ lPc[c] = "idle"
  /\ svcEmbedder' = "null"
  /\ lPc' = [lPc EXCEPT ![c] = "done"]
  /\ UNCHANGED <<lKind, toolEmbedder, toolLoads, isLoading, svcLoads, lSawLoading>>
  /\ UNCHANGED otherThanLoad

\* isReady(): this.embedder !== null && !this.isLoading
IsReady == svcEmbedder # "null" /\ ~isLoading

\* The methods of LocalEmbeddingService that read or write embedder and
\* isLoading.
ServiceKinds == {"initialize", "generate", "shutdown"}

\* A freshly constructed LocalEmbeddingService and the calls made on it.
InitLifecycle ==
  /\ lKind \in [Callers -> ServiceKinds]
  /\ lPc = [c \in Callers |-> "idle"]
  /\ toolEmbedder = "null"
  /\ toolLoads = 0
  /\ svcEmbedder = "null"
  /\ isLoading = FALSE
  /\ svcLoads = 0
  /\ lSawLoading = {}

\* LocalEmbeddingService under concurrent calls of its methods.
NextLifecycle ==
  \E c \in Callers :
    \/ SvcCall(c)
    \/ SvcLoadResolve(c)
    \/ SvcLoadReject(c)
    \/ SvcResume(c)
    \/ SvcInvoke(c)
    \/ SvcShutdown(c)

NextLoad ==
  \E c \in Callers :
    \/ ToolCall(c)
    \/ ToolLoadResolve(c)
    \/ ToolLoadReject(c)
    \/ SvcCall(c)
    \/ SvcLoadResolve(c)
    \/ SvcLoadReject(c)
    \/ SvcResume(c)
    \/ SvcInvoke(c)

(***************************************************************************)
(* Retrieval: storage                                                      *)
(***************************************************************************)

\* ---- bounds of the retrieval model
NDocs == 3
MaxLimit == 2

Docs == 1..NDocs

\* ---- program constants, in hundredths
DefaultLimit == 10
DefaultThreshold == 30
DefaultVectorWeight == 70
DefaultTextWeight == 30
HybridVectorThreshold == 10
DefaultTextScore == 50
FallbackScore == 30
SimilarCasesThreshold == 30

\* Scores storage may report for a document: vectorSearchScore, and
\* searchScore (Undef: the lexical query does not match the document).
VScores == {20, 90}
TScores == {Undef, 0, 150}

\* The type of _id in the collection.  insertDocument stores the document
\* without an _id, which the driver then generates as an ObjectId; a document
\* written with an _id of its own has the declared type, string.
IdTypes == {"string", "ObjectId"}

\* result.document._id as a query returns it, seen as a Map key: a string is
\* compared by value, an ObjectId is an object made anew by every query that
\* reads the document and is compared by reference.  `q` numbers the query.
DocumentId(d, q) == IF idType = "string" THEN <<d, 0>> ELSE <<d, q>>

\* results.map(doc => ({document: doc, score: ..})) of query number q.
Fetched(rows, q) ==
  [k \in 1..Len(rows) |->
     [id |-> rows[k].id, key |-> DocumentId(rows[k].id, q), score |-> rows[k].score]]

\* metadata.patientId of the stored documents.
Patient(d) == IF d % 2 = 1 THEN "p1" ELSE "p2"

\* The filter objects the handlers pass down, by the keys they carry:
\* handleSearchDocuments builds {'metadata.patientId': p}; handleHybridSearch
\* passes args.filter, {patientId: p}, as it is.  "none": the key is absent.
MongoFilter(p) == [metaPatientId |-> p, patientId |-> "none"]
ArgsFilter(p) == [metaPatientId |-> "none", patientId |-> p]

\* matchConditions of vectorSearch / textSearch: only filter['metadata.patientId']
\* (and the other 'metadata.*' keys) is copied.
MatchConditions(filter) == filter.metaPatientId

\* The condition {$ne: p} on a patient id.
NotEqual(p) == IF p = "p1" THEN "$ne p1" ELSE "$ne p2"

Matches(d, cond) ==
  \/ cond = "none"
  \/ IF cond \in {NotEqual("p1"), NotEqual("p2")}
        THEN cond # NotEqual(Patient(d))
        ELSE Patient(d) = cond

\* args.documentId when it is omitted.
NoDocument == 0

\* excludeFilter of handleFindSimilarCases: 'metadata.patientId': {$ne: p} when
\* args.patientId is given, '_id': {$ne: id} when args.documentId is given.
ExcludeFilter(p, id) ==
  [metaPatientId |-> IF p = "none" THEN "none" ELSE NotEqual(p),
   patientId |-> "none", id |-> id]

\* Documents in decreasing order of f, ties by id.
RECURSIVE RankBy(_, _)
RankBy(S, f) ==
  IF S = {} THEN <<>>
  ELSE LET best == CHOOSE d \in S :
                     \A e \in S : f[d] > f[e] \/ (f[d] = f[e] /\ d <= e)
       IN  <<best>> \o RankBy(S \ {best}, f)

Take(s, n) == SubSeq(s, 1, Min(n, Len(s)))

\* The entries of s that pass {$match: matchConditions} and
\* {$match: {score: {$gte: threshold}}}.
RECURSIVE SelectSeqBy(_, _, _)
SelectSeqBy(s, cond, thr) ==
  IF s = <<>> THEN <<>>
  ELSE LET rest == SelectSeqBy(Tail(s), cond, thr)
       IN  IF Matches(Head(s), cond) /\ vScore[Head(s)] >= thr
             THEN <<Head(s)>> \o rest ELSE rest

\* The aggregation of vectorSearch: $vectorSearch with limit*2 results, the
\* $match on the filter, the $match on score >= threshold, $limit, and the
\* mapping to {document, score: doc.score || 0}.
VectorAggregate(limit, threshold, filter) ==
  LET cands == Take(RankBy(Docs, vScore), limit * 2)
      kept == Take(SelectSeqBy(cands, MatchConditions(filter), threshold), limit)
  IN  [k \in 1..Len(kept) |-> [id |-> kept[k], score |-> vScore[kept[k]]]]

RECURSIVE SelectMatching(_, _)
SelectMatching(s, cond) ==
  IF s = <<>> THEN <<>>
  ELSE LET rest == SelectMatching(Tail(s), cond)
       IN  IF Matches(Head(s), cond) THEN <<Head(s)>> \o rest ELSE rest

\* The aggregation of textSearch: $search on title and content, the $match on
\* the filter, $limit, and the mapping to {document, score: doc.score || 0.5}.
TextAggregate(limit, filter) ==
  LET hits == RankBy({d \in Docs : tScore[d] # Undef}, tScore)
      kept == Take(SelectMatching(hits, MatchConditions(filter)), limit)
  IN  [k \in 1..Len(kept) |->
         [id |-> kept[k], score |-> OrDefault(tScore[kept[k]], DefaultTextScore)]]

\* Whether the case-insensitive regex `query` finds a match in the title or
\* content: the empty pattern matches every document, the query text those
\* that hold its terms.
RegexMatches(d, query) == query = "" \/ tScore[d] # Undef

\* Mutant of RegexFind: the hits keep textSearch's default score.
RegexFindTextScore(query, limit) ==
  LET hits == Take(RankBy({d \in Docs : RegexMatches(d, query)},
                          [d \in Docs |-> 0]), limit)
  IN  [k \in 1..Len(hits) |-> [id |-> hits[k], score |-> DefaultTextScore]]

\* The find of textSearchFallback: the $or of two $regex conditions, with no
\* filter, limit(limit), every hit mapped to score 0.3.
RegexFind(query, limit) ==
  LET hits == Take(RankBy({d \in Docs : RegexMatches(d, query)},
                          [d \in Docs |-> 0]), limit)
  IN  [k \in 1..Len(hits) |-> [id |-> hits[k], score |-> FallbackScore]]

(***************************************************************************)
(* Retrieval: hybridSearch's fusion                                        *)
(***************************************************************************)

\* result.score * weight
Weighted(score, weight) == score * weight

\* existing.score += result.score * textWeight
Boost(existing, score, weight) == existing + Weighted(score, weight)

\* Position of the entry of map m with the given key, 0 if there is none.
MapIndex(m, key) ==
  IF \E k \in 1..Len(m) : m[k].key = key
    THEN CHOOSE k \in 1..Len(m) : m[k].key = key
    ELSE 0

\* combinedResults.set(id, entry): a Map keeps the position of an existing key.
MapSet(m, entry) ==
  LET k == MapIndex(m, entry.key)
  IN  IF k = 0 THEN Append(m, entry) ELSE [m EXCEPT ![k] = entry]

\* vectorResults.forEach(result => combinedResults.set(id, {...result,
\* score: result.score * vectorWeight}))
RECURSIVE SeedVector(_, _, _)
SeedVector(m, vres, vw) ==
  IF vres = <<>> THEN m
  ELSE SeedVector(MapSet(m, [Head(vres) EXCEPT
                               !.score = Weighted(Head(vres).score, vw)]),
                  Tail(vres), vw)

\* One text result merged into combinedResults: boost the existing entry, or
\* insert the result with its weighted score.
MergeText(m, r, tw) ==
  LET k == MapIndex(m, r.key)
  IN  IF k # 0
        THEN [m EXCEPT ![k].score = Boost(m[k].score, r.score, tw)]
        ELSE Append(m, [r EXCEPT !.score = Weighted(r.score, tw)])

RECURSIVE MergeAllText(_, _, _)
MergeAllText(m, tres, tw) ==
  IF tres = <<>> THEN m
  ELSE MergeAllText(MergeText(m, Head(tres), tw), Tail(tres), tw)

\* Array.from(combinedResults.values())
Combined(vres, tres, vw, tw) == MergeAllText(SeedVector(<<>>, vres, vw), tres, tw)

\* The comparator (a, b) => b.score - a.score: a is placed before b.
ComesBefore(a, b) == a.score >= b.score

\* Insert e into the sorted sequence s after every entry that may stay before it.
RECURSIVE InsertSorted(_, _)
InsertSorted(s, e) ==
  IF s = <<>> THEN <<e>>
  ELSE IF ComesBefore(Head(s), e) THEN <<Head(s)>> \o InsertSorted(Tail(s), e)
       ELSE <<e>> \o s

\* Array.prototype.sort with that comparator (a stable sort).
RECURSIVE SortDesc(_)
SortDesc(s) ==
  IF s = <<>> THEN <<>>
  ELSE InsertSorted(SortDesc(SubSeq(s, 1, Len(s) - 1)), s[Len(s)])

\* Mutant of FinalResults: the slice taken before the sort.
FinalResultsSliceFirst(combined, limit) == SortDesc(Take(combined, limit))

\* .sort(...).slice(0, limit)
FinalResults(combined, limit) == Take(SortDesc(combined), limit)

\* results.filter(result => result.score >= threshold)
RECURSIVE FilterByThreshold(_, _)
FilterByThreshold(s, thr) ==
  IF s = <<>> THEN <<>>
  ELSE LET rest == FilterByThreshold(Tail(s), thr)
       IN  IF Head(s).score >= thr * 100 THEN <<Head(s)>> \o rest ELSE rest

\* Math.ceil(limit * 0.7) and Math.ceil(limit * 0.5)
VectorShare(limit) == (7 * limit + 9) \div 10
TextShare(limit) == (limit + 1) \div 2

(***************************************************************************)
(* Retrieval: the handlers and the fallback ladder                         *)
(***************************************************************************)

Thresholds == {Undef, 0, 50}
PatientArgs == {"none", "p1"}
\* args.query: a query with terms, and the empty string.
Queries == {"q", ""}

IsHybrid == sOp = "hybridSearch"
IsSimilar == sOp = "findSimilarCases"

\* args.limit || 10, args.topK || 10
Limit == OrDefault(sArgs.limit, DefaultLimit)
\* args.threshold || 0.3
EffectiveThreshold(arg) == OrDefault(arg, DefaultThreshold)
Threshold == EffectiveThreshold(sArgs.threshold)
\* args.vectorWeight || 0.7, args.textWeight || 0.3
VectorWeight == OrDefault(sArgs.vectorWeight, DefaultVectorWeight)
TextWeight == OrDefault(sArgs.textWeight, DefaultTextWeight)

\* The filter argument of vectorSearch / textSearch / hybridSearch.
Filter ==
  IF IsHybrid THEN ArgsFilter(sArgs.patientId)
  ELSE IF IsSimilar THEN ExcludeFilter(sArgs.patientId, sArgs.documentId)
  ELSE MongoFilter(sArgs.patientId)

\* The limit and threshold vectorSearch and textSearch are called with.
VecLimit == IF IsHybrid THEN VectorShare(Limit) ELSE Limit
VecThreshold ==
  IF IsHybrid THEN HybridVectorThreshold
  ELSE IF IsSimilar THEN SimilarCasesThreshold
  ELSE Threshold
TextLimit == IF IsHybrid THEN TextShare(Limit) ELSE Limit

Issued(tier, query, ok) == Append(sTrace, [tier |-> tier, query |-> query, ok |-> ok])

\* args.searchType of searchDocuments ("none": omitted); hybridSearch has no
\* such argument.
SearchTypeArgs(op) == IF op = "searchDocuments" THEN {"none", "vector"} ELSE {"none"}

\* The searchType field of the response: handleSearchDocuments reports
\* args.searchType || 'hybrid', handleHybridSearch the literal 'hybrid'.
ReportedSearchType ==
  IF IsHybrid \/ sArgs.searchType = "none" THEN "hybrid" ELSE sArgs.searchType

NoResp == [success |-> "none", results |-> <<>>, searchType |-> "none"]
ErrorResp == [success |-> "false", results |-> <<>>, searchType |-> "none"]
OkResp(results) ==
  [success |-> "true", results |-> results, searchType |-> ReportedSearchType]

\* A call of tool `op`: its arguments and the stored corpus it runs against.
\* Both weights are left out, so that hybridSearch runs with its defaults.
InitRetrieval(op) ==
  /\ sOp = op
  /\ sArgs \in [query : Queries, limit : {Undef} \cup 1..MaxLimit,
                threshold : Thresholds, patientId : PatientArgs,
                vectorWeight : {Undef}, textWeight : {Undef},
                searchType : SearchTypeArgs(op),
                documentId : {NoDocument}, terms : {FALSE}]
  /\ vScore \in [Docs -> VScores]
  /\ tScore \in [Docs -> TScores]
  \* the empty query holds no term for $search to match
  /\ sArgs.query = "" => \A d \in Docs : tScore[d] = Undef
  /\ idType \in IdTypes
  /\ sPc = "start"
  /\ sTrace = <<>>
  /\ vectorResults = <<>>
  /\ textResults = <<>>
  /\ sResults = <<>>
  /\ sResp = NoResp

\* A call of findSimilarCases: documentId, patientId, limit, and whether any of
\* symptoms / conditions / medications is given (terms).
InitSimilar ==
  /\ sOp = "findSimilarCases"
  /\ sArgs \in [query : {"q"}, limit : {Undef} \cup 1..MaxLimit,
                threshold : {Undef}, patientId : PatientArgs,
                vectorWeight : {Undef}, textWeight : {Undef},
                searchType : {"none"},
                documentId : {NoDocument} \cup Docs, terms : BOOLEAN]
  /\ vScore \in [Docs -> VScores]
  /\ tScore = [d \in Docs |-> Undef]
  /\ idType \in IdTypes
  /\ sPc = "start"
  /\ sTrace = <<>>
  /\ vectorResults = <<>>
  /\ textResults = <<>>
  /\ sResults = <<>>
  /\ sResp = NoResp

InitSearch == InitRetrieval("searchDocuments")
InitHybrid == InitRetrieval("hybridSearch")

IdleSearch ==
  /\ sOp = "none"
  /\ sArgs = [query |-> "", limit |-> Undef, threshold |-> Undef,
              patientId |-> "none", vectorWeight |-> Undef, textWeight |-> Undef,
              searchType |-> "none", documentId |-> NoDocument, terms |-> FALSE]
  /\ vScore = [d \in Docs |-> 0]
  /\ tScore = [d \in Docs |-> Undef]
  /\ idType = "string"
  /\ sPc = "idle"
  /\ sTrace = <<>>
  /\ vectorResults = <<>>
  /\ textResults = <<>>
  /\ sResults = <<>>
  /\ sResp = NoResp

\* handleSearchDocuments: the two countDocuments calls.  A failure of either
\* reaches the outer catch.  The stored corpus is not empty and its documents
\* have embeddings, so neither early return is taken.
SdCount ==
  /\ sPc = "start" /\ sOp = "searchDocuments"
  /\ \E ok \in BOOLEAN :
       /\ sTrace' = Issued("COUNT", "", ok)
       /\ IF ok THEN sPc' = "testEmbed" /\ UNCHANGED sResp
                ELSE sPc' = "done" /\ sResp' = ErrorResp
  /\ UNCHANGED <<sOp, sArgs, vScore, tScore, idType, vectorResults, textResults, sResults>>
  /\ UNCHANGED otherThanSearch

\* handleSearchDocuments: the test call of generateQueryEmbedding, whose
\* failure is answered with success: false.
SdTestEmbed ==
  /\ sPc = "testEmbed"
  /\ \E ok \in BOOLEAN :
       IF ok THEN sPc' = "embed" /\ UNCHANGED sResp
             ELSE sPc' = "done" /\ sResp' = ErrorResp
  /\ UNCHANGED <<sOp, sArgs, vScore, tScore, idType, sTrace, vectorResults, textResults,
                 sResults>>
  /\ UNCHANGED otherThanSearch

\* findDocumentById(args.documentId) finds the document whose _id equals the
\* string: a document whose _id is an ObjectId is not found.
ReferenceFound == sArgs.documentId # NoDocument /\ idType = "string"

\* handleFindSimilarCases up to the query text: the reference document (by
\* documentId, else the newest document of patientId), its entity texts and
\* the terms of the arguments.  A failing read, and an empty list of terms,
\* reach the catch.
ScStart ==
  /\ sPc = "start" /\ IsSimilar
  /\ \E ok \in BOOLEAN, hasEntities \in BOOLEAN :
       LET reads == sArgs.documentId # NoDocument \/ sArgs.patientId # "none"
           reference == ReferenceFound
                        \/ (sArgs.documentId = NoDocument /\ sArgs.patientId # "none")
           searchTerms == (reference /\ hasEntities) \/ sArgs.terms
       IN  /\ reads \/ ok
           /\ reference \/ ~hasEntities
           /\ IF ok /\ searchTerms
                THEN sPc' = "embed" /\ UNCHANGED sResp
                ELSE sPc' = "done" /\ sResp' = ErrorResp
  /\ UNCHANGED <<sOp, sArgs, vScore, tScore, idType, sTrace, vectorResults, textResults,
                 sResults>>
  /\ UNCHANGED otherThanSearch

\* handleHybridSearch starts with the embedding of the query.
HyStart ==
  /\ sPc = "start" /\ IsHybrid
  /\ sPc' = "embed"
  /\ UNCHANGED <<sOp, sArgs, vScore, tScore, idType, sTrace, vectorResults, textResults,
                 sResults, sResp>>
  /\ UNCHANGED otherThanSearch

\* generateQueryEmbedding(args.query).  In handleSearchDocuments a failure is
\* caught and textSearch(args.query, limit, mongoFilter) is called; in
\* handleHybridSearch it reaches the outer catch.
Embed ==
  /\ sPc = "embed"
  /\ \E ok \in BOOLEAN :
       IF ok THEN sPc' = "vector" /\ UNCHANGED sResp
       ELSE IF IsHybrid \/ IsSimilar THEN sPc' = "done" /\ sResp' = ErrorResp
       ELSE sPc' = "text" /\ UNCHANGED sResp
  /\ UNCHANGED <<sOp, sArgs, vScore, tScore, idType, sTrace, vectorResults, textResults,
                 sResults>>
  /\ UNCHANGED otherThanSearch

\* Where vectorSearch's caller goes on: hybridSearch calls textSearch next,
\* handleSearchDocuments formats the results.
AfterVector == IF IsHybrid THEN "text" ELSE "respond"
AfterText == IF IsHybrid THEN "fuse" ELSE "respond"

\* The query text vectorSearch's catch hands to the next tier.
VectorFallbackQuery == ""
\* The tier vectorSearch's catch calls.
VectorFallbackTier == "SUBSTRING"

\* vectorSearch: the aggregation.  On any failure the catch goes on to
\* textSearchFallback('', limit).
VectorTier ==
  /\ sPc = "vector"
  /\ \E ok \in BOOLEAN :
       /\ sTrace' = Issued("VECTOR", sArgs.query, ok)
       /\ IF ok
            THEN /\ vectorResults' = Fetched(VectorAggregate(VecLimit, VecThreshold, Filter),
                                              Len(sTrace'))
                 /\ sResults' = IF IsHybrid THEN sResults ELSE vectorResults'
                 /\ sPc' = AfterVector
            ELSE /\ sPc' = "vectorFallback"
                 /\ UNCHANGED <<vectorResults, sResults>>
  /\ UNCHANGED <<sOp, sArgs, vScore, tScore, idType, textResults, sResp>>
  /\ UNCHANGED otherThanSearch

\* What a fallback tier run for vectorSearch returns when storage answers.
VectorFallbackResults(ok) ==
  IF ~ok THEN <<>>
  ELSE IF VectorFallbackTier = "SUBSTRING" THEN RegexFind(VectorFallbackQuery, VecLimit)
  ELSE TextAggregate(VecLimit, Filter)

\* The fallback of vectorSearch: textSearchFallback, which returns [] when its
\* own find fails.
VectorFallback ==
  /\ sPc = "vectorFallback"
  /\ \E ok \in BOOLEAN :
       /\ sTrace' = Issued(VectorFallbackTier, VectorFallbackQuery, ok)
       /\ vectorResults' = Fetched(VectorFallbackResults(ok), Len(sTrace'))
       /\ sResults' = IF IsHybrid THEN sResults ELSE vectorResults'
       /\ sPc' = AfterVector
  /\ UNCHANGED <<sOp, sArgs, vScore, tScore, idType, textResults, sResp>>
  /\ UNCHANGED otherThanSearch

\* textSearch: the aggregation.  On any failure the catch goes on to
\* textSearchFallback(query, limit).
TextTier ==
  /\ sPc = "text"
  /\ \E ok \in BOOLEAN :
       /\ sTrace' = Issued("LEXICAL", sArgs.query, ok)
       /\ IF ok
            THEN /\ textResults' = Fetched(TextAggregate(TextLimit, Filter), Len(sTrace'))
                 /\ sResults' = IF IsHybrid THEN sResults ELSE textResults'
                 /\ sPc' = AfterText
            ELSE /\ sPc' = "textFallback"
                 /\ UNCHANGED <<textResults, sResults>>
  /\ UNCHANGED <<sOp, sArgs, vScore, tScore, idType, vectorResults, sResp>>
  /\ UNCHANGED otherThanSearch

\* The fallback of textSearch: textSearchFallback(query, limit).
TextFallback ==
  /\ sPc = "textFallback"
  /\ \E ok \in BOOLEAN :
       /\ sTrace' = Issued("SUBSTRING", sArgs.query, ok)
       /\ textResults' = IF ok THEN Fetched(RegexFind(sArgs.query, TextLimit), Len(sTrace'))
                               ELSE <<>>
       /\ sResults' = IF IsHybrid THEN sResults ELSE textResults'
       /\ sPc' = AfterText
  /\ UNCHANGED <<sOp, sArgs, vScore, tScore, idType, vectorResults, sResp>>
  /\ UNCHANGED otherThanSearch

\* hybridSearch after both sub-searches: the fusion, the sort and the slice;
\* then handleHybridSearch's threshold filter and its response.  Nothing in
\* hybridSearch's try block throws (both sub-searches catch their failures),
\* so its catch is never entered.
HybridFuse ==
  /\ sPc = "fuse"
  /\ sResults' = FinalResults(Combined(vectorResults, textResults,
                                       VectorWeight, TextWeight), Limit)
  /\ sResp' = OkResp(FilterByThreshold(sResults', Threshold))
  /\ sPc' = "done"
  /\ UNCHANGED <<sOp, sArgs, vScore, tScore, idType, sTrace, vectorResults, textResults>>
  /\ UNCHANGED otherThanSearch

\* handleSearchDocuments: the formatting of searchResults and the response.
SdRespond ==
  /\ sPc = "respond" /\ ~IsSimilar
  /\ sResp' = OkResp(sResults)
  /\ sPc' = "done"
  /\ UNCHANGED <<sOp, sArgs, vScore, tScore, idType, sTrace, vectorResults, textResults,
                 sResults>>
  /\ UNCHANGED otherThanSearch

\* handleFindSimilarCases: similarCases mapped to the cases of the response.
ScRespond ==
  /\ sPc = "respond" /\ IsSimilar
  /\ sResp' = OkResp(sResults)
  /\ sPc' = "done"
  /\ UNCHANGED <<sOp, sArgs, vScore, tScore, idType, sTrace, vectorResults, textResults,
                 sResults>>
  /\ UNCHANGED otherThanSearch

\* handleFindSimilarCases with the storage calls it leads to.
NextSimilar ==
  \/ ScStart
  \/ Embed
  \/ VectorTier
  \/ VectorFallback
  \/ ScRespond

\* handleSearchDocuments with the storage calls it leads to.
NextSearch ==
  \/ SdCount
  \/ SdTestEmbed
  \/ Embed
  \/ VectorTier
  \/ VectorFallback
  \/ TextTier
  \/ TextFallback
  \/ SdRespond

\* handleHybridSearch with the storage calls it leads to.
NextHybrid ==
  \/ HyStart
  \/ Embed
  \/ VectorTier
  \/ VectorFallback
  \/ TextTier
  \/ TextFallback
  \/ HybridFuse

NextChunk ==
  \/ ChunkCall
  \/ ChunkLoop
  \/ ChunkEmbed

(***************************************************************************)
(* Upload: handleUploadDocument                                            *)
(***************************************************************************)

\* Texts by what trim() makes of them: "absent" is an omitted args.content,
\* "blank" a text of whitespace only.
Texts == {"", "blank", "text"}
ContentArgs == {"absent"} \cup Texts
\* args.filePath / args.fileBuffer
FileArgs == {"none", "filePath", "fileBuffer"}
\* args.metadata.processed as the caller sent it
ProcessedArgs == {"absent", "false"}

\* ---- bound: entities the tagger may find
MaxEntities == 2

\* args.content || ''
ContentOrEmpty(c) == IF c = "absent" THEN "" ELSE c

\* !extractedText.trim()
TrimIsEmpty(t) == t \in {"", "blank"}

\* Mutant of UploadMetadata: the caller's metadata spread last.
UploadMetadataArgsLast(processedArg) ==
  [processed |-> IF processedArg = "absent" THEN TRUE ELSE FALSE]

\* metadata: {...args.metadata, uploadedAt: new Date(), processed: true}
UploadMetadata(processedArg) == [processed |-> TRUE]

UploadErrorResp == [success |-> "false"]

InitUpload ==
  /\ uArgs \in [content : ContentArgs, file : FileArgs, processed : ProcessedArgs]
  /\ uPc = "start"
  /\ extractedText = ""
  /\ medicalEntities = Undef
  /\ embedding = "none"
  /\ uStages = <<>>
  /\ documents = <<>>
  /\ uResp = [success |-> "none"]

IdleUpload ==
  /\ uArgs = [content |-> "absent", file |-> "none", processed |-> "absent"]
  /\ uPc = "idle"
  /\ extractedText = ""
  /\ medicalEntities = Undef
  /\ embedding = "none"
  /\ uStages = <<>>
  /\ documents = <<>>
  /\ uResp = [success |-> "none"]

\* The check of the resolved text and what follows it up to the next await.
UploadCheckText(text) ==
  IF TrimIsEmpty(text)
    THEN /\ uPc' = "done"
         /\ uResp' = UploadErrorResp
         /\ UNCHANGED uStages
    ELSE /\ uPc' = "entities"
         /\ uStages' = Append(uStages, "text")
         /\ UNCHANGED uResp

\* The handler up to its first await: extractTextFromFile when a file is
\* given, nerService.extractEntities otherwise.
UploadStart ==
  /\ uPc = "start"
  /\ extractedText' = ContentOrEmpty(uArgs.content)
  /\ IF uArgs.file # "none"
       THEN uPc' = "extract" /\ UNCHANGED <<uStages, uResp>>
       ELSE UploadCheckText(extractedText')
  /\ UNCHANGED <<uArgs, medicalEntities, embedding, documents>>
  /\ UNCHANGED otherThanUpload

\* extractTextFromFile returns a text, which replaces the content, or throws.
UploadExtract ==
  /\ uPc = "extract"
  /\ \/ /\ uPc' = "done"
        /\ uResp' = UploadErrorResp
        /\ UNCHANGED <<extractedText, uStages>>
     \/ \E text \in Texts :
          /\ extractedText' = text
          /\ UploadCheckText(text)
  /\ UNCHANGED <<uArgs, medicalEntities, embedding, documents>>
  /\ UNCHANGED otherThanUpload

\* nerService.extractEntities(extractedText)
UploadEntities ==
  /\ uPc = "entities"
  /\ \/ /\ uPc' = "done"
        /\ uResp' = UploadErrorResp
        /\ UNCHANGED <<medicalEntities, uStages>>
     \/ \E n \in 0..MaxEntities :
          /\ medicalEntities' = n
          /\ uStages' = Append(uStages, "entities")
          /\ uPc' = "embedding"
          /\ UNCHANGED uResp
  /\ UNCHANGED <<uArgs, extractedText, embedding, documents>>
  /\ UNCHANGED otherThanUpload

\* embeddingService.generateMedicalDocumentEmbedding(title, text, entities)
UploadEmbedding ==
  /\ uPc = "embedding"
  /\ \E ok \in BOOLEAN :
       IF ok
         THEN /\ embedding' = "vector"
              /\ uStages' = Append(uStages, "embedding")
              /\ uPc' = "insert"
              /\ UNCHANGED uResp
         ELSE /\ uPc' = "done"
              /\ uResp' = UploadErrorResp
              /\ UNCHANGED <<embedding, uStages>>
  /\ UNCHANGED <<uArgs, extractedText, medicalEntities, documents>>
  /\ UNCHANGED otherThanUpload

\* The document object, mongoClient.insertDocument(document) and the response.
UploadInsert ==
  /\ uPc = "insert"
  /\ \E ok \in BOOLEAN :
       IF ok
         THEN /\ documents' = Append(documents,
                                     [content |-> extractedText,
                                      medicalEntities |-> medicalEntities,
                                      embedding |-> embedding,
                                      metadata |-> UploadMetadata(uArgs.processed)])
              /\ uStages' = Append(uStages, "insert")
              /\ uResp' = [success |-> "true"]
         ELSE /\ uResp' = UploadErrorResp
              /\ UNCHANGED <<documents, uStages>>
  /\ uPc' = "done"
  /\ UNCHANGED <<uArgs, extractedText, medicalEntities, embedding>>
  /\ UNCHANGED otherThanUpload

NextUpload ==
  \/ UploadStart
  \/ UploadExtract
  \/ UploadEntities
  \/ UploadEmbedding
  \/ UploadInsert

(***************************************************************************)
(* Tool-call dispatch: server.ts                                           *)
(***************************************************************************)

Modes == {"stdio", "http"}

\* The tool names both switches know.
CurrentTools ==
  {"uploadDocument", "searchDocuments", "listDocuments",
   "extractMedicalEntities", "findSimilarCases", "analyzePatientHistory",
   "getMedicalInsights", "generateEmbeddingLocal", "chunkAndEmbedDocument",
   "semanticSearchLocal"}

\* The legacy names of the stdio switch, and those of the HTTP switch.
LegacyStdioTools ==
  {"upload_document", "extract_text", "extract_medical_entities",
   "search_by_diagnosis", "semantic_search", "get_patient_summary"}
LegacyHttpTools == {"generateEmbeddingGoogle", "semanticSearchGoogle", "hybridSearch"}

ToolNames == CurrentTools \cup LegacyStdioTools \cup LegacyHttpTools \cup {"noSuchTool"}

\* The cases the two switches share.
RouteCurrent(name) ==
  CASE name = "uploadDocument" -> "handleUploadDocument"
    [] name = "searchDocuments" -> "handleSearchDocuments"
    [] name = "listDocuments" -> "handleListDocuments"
    [] name = "extractMedicalEntities" -> "handleExtractMedicalEntities"
    [] name = "findSimilarCases" -> "handleFindSimilarCases"
    [] name = "analyzePatientHistory" -> "handleAnalyzePatientHistory"
    [] name = "getMedicalInsights" -> "handleMedicalInsights"
    [] name = "generateEmbeddingLocal" -> "handleGenerateEmbedding"
    [] name = "chunkAndEmbedDocument" -> "handleChunkAndEmbed"
    [] name = "semanticSearchLocal" -> "handleSemanticSearch"

\* switch (name) of the mode: the handler called, "default" for no case.  The
\* legacy handlers other than handleExtractText only call a tool handler.
Route(mode, name) ==
  IF name \in CurrentTools THEN RouteCurrent(name)
  ELSE IF mode = "stdio" /\ name \in LegacyStdioTools
    THEN CASE name = "upload_document" -> "handleUploadDocument"
           [] name = "extract_text" -> "handleExtractText"
           [] name = "extract_medical_entities" -> "handleExtractMedicalEntities"
           [] name = "search_by_diagnosis" -> "handleSearchDocuments"
           [] name = "semantic_search" -> "handleSemanticSearch"
           [] name = "get_patient_summary" -> "handleAnalyzePatientHistory"
  ELSE IF mode = "http" /\ name \in LegacyHttpTools
    THEN CASE name = "generateEmbeddingGoogle" -> "handleGenerateEmbedding"
           [] name = "semanticSearchGoogle" -> "handleSemanticSearch"
           [] name = "hybridSearch" -> "handleSemanticSearch"
  ELSE "default"

\* The handlers whose whole body is inside their own try/catch.
ToolHandlers ==
  {"handleUploadDocument", "handleSearchDocuments", "handleListDocuments",
   "handleExtractMedicalEntities", "handleFindSimilarCases",
   "handleAnalyzePatientHistory", "handleMedicalInsights",
   "handleGenerateEmbedding", "handleChunkAndEmbed", "handleSemanticSearch"}

\* Values a collaborator may raise: an Error with its message, or a value that
\* is no Error.
UnknownToolError == [isError |-> TRUE, message |-> "Unknown tool"]
DocumentNotFound == [isError |-> TRUE, message |-> "Document not found"]
Raised ==
  {[isError |-> TRUE, message |-> "collaborator failed"],
   [isError |-> TRUE, message |-> ""],
   [isError |-> FALSE, message |-> "not an Error"]}

\* error instanceof Error ? error.message : 'Unknown error occurred'
ErrorMessage(e) == IF e.isError THEN e.message ELSE "Unknown error occurred"

NoReturn == [kind |-> "none", success |-> FALSE, error |-> "", isError |-> FALSE]
SuccessEnvelope ==
  [kind |-> "envelope", success |-> TRUE, error |-> "", isError |-> FALSE]
\* The envelope built in a catch block.
ErrorEnvelope(e) ==
  [kind |-> "envelope", success |-> FALSE, error |-> ErrorMessage(e),
   isError |-> TRUE]

\* Mutant of DispatchCatch: the dispatcher lets the exception through.
DispatchRethrow(e) ==
  [kind |-> "exception", success |-> FALSE, error |-> ErrorMessage(e),
   isError |-> TRUE]

\* catch (error) of the dispatcher, in either mode.
DispatchCatch(e) == ErrorEnvelope(e)

InitServer ==
  /\ dMode \in Modes
  /\ dName \in ToolNames
  /\ dDocumentId \in BOOLEAN
  /\ dPc = "called"
  /\ dHandler = "none"
  /\ dFailure = <<>>
  /\ dResp = NoReturn

IdleServer ==
  /\ dMode = "stdio"
  /\ dName = "noSuchTool"
  /\ dDocumentId = FALSE
  /\ dPc = "idle"
  /\ dHandler = "none"
  /\ dFailure = <<>>
  /\ dResp = NoReturn

\* switch (name): a case calls its handler, default throws into the catch.
Dispatch ==
  /\ dPc = "called"
  /\ dHandler' = Route(dMode, dName)
  /\ IF dHandler' = "default"
       THEN /\ dFailure' = <<UnknownToolError>>
            /\ dResp' = DispatchCatch(UnknownToolError)
            /\ dPc' = "done"
       ELSE /\ dPc' = "handler"
            /\ UNCHANGED <<dFailure, dResp>>
  /\ UNCHANGED <<dMode, dName, dDocumentId>>
  /\ UNCHANGED otherThanServer

\* A tool handler runs to its end, or a collaborator raises e and the
\* handler's own catch answers; `return await` hands the envelope on.
ToolHandlerReturns ==
  /\ dPc = "handler"
  /\ dHandler \in ToolHandlers
  /\ \/ /\ dResp' = SuccessEnvelope
        /\ UNCHANGED dFailure
     \/ \E e \in Raised :
          /\ dFailure' = <<e>>
          /\ dResp' = ErrorEnvelope(e)
  /\ dPc' = "done"
  /\ UNCHANGED <<dMode, dName, dDocumentId, dHandler>>
  /\ UNCHANGED otherThanServer

\* handleExtractText finds the document and returns it.
ExtractTextReturns ==
  /\ dPc = "handler"
  /\ dHandler = "handleExtractText"
  /\ dDocumentId
  /\ dResp' = SuccessEnvelope
  /\ dPc' = "done"
  /\ UNCHANGED <<dMode, dName, dDocumentId, dHandler, dFailure>>
  /\ UNCHANGED otherThanServer

\* handleExtractText has no try: findDocumentById raises, or no document is
\* found and the handler throws; the dispatcher's catch answers.
ExtractTextThrows ==
  /\ dPc = "handler"
  /\ dHandler = "handleExtractText"
  /\ \E e \in (IF dDocumentId THEN Raised ELSE {}) \cup {DocumentNotFound} :
       /\ dFailure' = <<e>>
       /\ dResp' = DispatchCatch(e)
  /\ dPc' = "done"
  /\ UNCHANGED <<dMode, dName, dDocumentId, dHandler>>
  /\ UNCHANGED otherThanServer

NextServer ==
  \/ Dispatch
  \/ ToolHandlerReturns
  \/ ExtractTextReturns
  \/ ExtractTextThrows

(***************************************************************************)
(* Similarity: calculateSimilarity and findSimilarTexts                    *)
(***************************************************************************)

\* ---- bounds of the similarity model
MaxDim == 2
MaxCandidates == 2

\* ---- program constants, in hundredths
LocalSimThreshold == 70
GoogleSimThreshold == 30

SimServices == {"local", "google"}
Components == {0, 1}
Embeddings == SeqsUpTo(Components, MaxDim)
SimThresholds == {Undef, 80}

\* threshold: number = 0.7 (0.3 in the Google service): a default parameter
\* stands in for undefined only.
SimThreshold(service, arg) ==
  IF arg # Undef THEN arg
  ELSE IF service = "local" THEN LocalSimThreshold ELSE GoogleSimThreshold

RECURSIVE DotUpTo(_, _, _)
DotUpTo(a, b, n) == IF n = 0 THEN 0 ELSE DotUpTo(a, b, n - 1) + a[n] * b[n]

SimError == [kind |-> "error", nan |-> FALSE, dot |-> 0, norms |-> 0]

\* A returned number dot / (sqrt(norm1) * sqrt(norm2)), kept as its dot
\* product and the product of the squared norms; 0 / 0 is NaN.
SimNumber(dot, norm1, norm2) ==
  [kind |-> "number", nan |-> (norm1 * norm2 = 0), dot |-> dot,
   norms |-> norm1 * norm2]

\* Mutant of CalculateSimilarity: no length check.  The loop runs over
\* embedding1; a missing embedding2[i] is undefined and makes every sum NaN.
CalculateSimilarityUnchecked(embedding1, embedding2) ==
  IF Len(embedding1) > Len(embedding2)
    THEN [kind |-> "number", nan |-> TRUE, dot |-> 0, norms |-> 0]
    ELSE LET n == Len(embedding1)
         IN SimNumber(DotUpTo(embedding1, embedding2, n),
                      DotUpTo(embedding1, embedding1, n),
                      DotUpTo(embedding2, embedding2, n))

\* calculateSimilarity: throws on a length mismatch, else the cosine.
CalculateSimilarity(embedding1, embedding2) ==
  IF Len(embedding1) # Len(embedding2)
    THEN SimError
    ELSE LET n == Len(embedding1)
         IN SimNumber(DotUpTo(embedding1, embedding2, n),
                      DotUpTo(embedding1, embedding1, n),
                      DotUpTo(embedding2, embedding2, n))

\* item.similarity >= threshold, for a threshold thr >= 0 in hundredths; a
\* comparison with NaN is false.
SimAtLeast(sim, thr) ==
  /\ ~sim.nan
  /\ sim.dot >= 0
  /\ sim.dot * sim.dot * 10000 >= thr * thr * sim.norms

\* b.similarity - a.similarity < 0: a sorts before b.  Both passed the filter.
SimBefore(a, b) ==
  a.similarity.dot * a.similarity.dot * b.similarity.norms
    > b.similarity.dot * b.similarity.dot * a.similarity.norms

RECURSIVE SimInsert(_, _)
SimInsert(sorted, x) ==
  IF sorted = <<>> THEN <<x>>
  ELSE IF SimBefore(x, Head(sorted)) THEN <<x>> \o sorted
  ELSE <<Head(sorted)>> \o SimInsert(Tail(sorted), x)

\* .sort((a, b) => b.similarity - a.similarity), a stable sort
RECURSIVE SimSort(_)
SimSort(items) ==
  IF items = <<>> THEN <<>>
  ELSE SimInsert(SimSort(SubSeq(items, 1, Len(items) - 1)), items[Len(items)])

\* The items {id, similarity} of the settled calls.
SimItems(sims) == [k \in 1..Len(sims) |-> [id |-> k, similarity |-> sims[k]]]

SimNoResp == [kind |-> "none", items |-> <<>>]

InitSim ==
  /\ mService \in SimServices
  /\ mQuery \in Embeddings
  /\ mCandidates \in SeqsUpTo(Embeddings, MaxCandidates)
  /\ mThreshold \in SimThresholds
  /\ mPc = "map"
  /\ mSims = <<>>
  /\ mResp = SimNoResp

IdleSim ==
  /\ mService = "local"
  /\ mQuery = <<>>
  /\ mCandidates = <<>>
  /\ mThreshold = Undef
  /\ mPc = "idle"
  /\ mSims = <<>>
  /\ mResp = SimNoResp

\* candidateEmbeddings.map(async candidate => ...): the call for the next
\* candidate.
SimCompare ==
  /\ mPc = "map"
  /\ Len(mSims) < Len(mCandidates)
  /\ mSims' = Append(mSims,
                     CalculateSimilarity(mQuery, mCandidates[Len(mSims) + 1]))
  /\ UNCHANGED <<mService, mQuery, mCandidates, mThreshold, mPc, mResp>>
  /\ UNCHANGED otherThanSim

\* await Promise.all(...) rejects when a call threw and the catch rethrows;
\* otherwise the filter and the sort.
SimSettle ==
  /\ mPc = "map"
  /\ Len(mSims) = Len(mCandidates)
  /\ mResp' =
       IF \E k \in 1..Len(mSims) : mSims[k].kind = "error"
         THEN [kind |-> "error", items |-> <<>>]
         ELSE [kind |-> "returned",
               items |-> SimSort(SelectSeq(SimItems(mSims),
                           LAMBDA item :
                             SimAtLeast(item.similarity,
                                        SimThreshold(mService, mThreshold))))]
  /\ mPc' = "done"
  /\ UNCHANGED <<mService, mQuery, mCandidates, mThreshold, mSims>>
  /\ UNCHANGED otherThanSim

NextSim ==
  \/ SimCompare
  \/ SimSettle

(***************************************************************************)
(* Batch embedding: GoogleEmbeddingService.generateEmbeddings              *)
(***************************************************************************)

\* ---- bounds of the batch model
MaxTexts == 11
MaxDepth == 3

\* ---- program constant: const batchSize = 5
BatchSize == 5

\* texts.slice(i, i + batchSize), by position in texts (1-based)
BatchOf(n, index) == (index + 1)..Min(index + BatchSize, n)

RECURSIVE Ascending(_, _)
Ascending(from, to) ==
  IF from > to THEN <<>> ELSE <<from>> \o Ascending(from + 1, to)

\* Mutant of BatchResults: the vectors in the order the calls settled.
BatchResultsAsSettled(n, index, order) == order

\* await Promise.all(batchPromises): the values in the order of the promises,
\* whatever the order the calls settled in.
BatchResults(n, index, order) == Ascending(index + 1, Min(index + BatchSize, n))

BatchNoResp == [kind |-> "none", embeddings |-> <<>>]
BatchError == [kind |-> "error", embeddings |-> <<>>]

\* isInitialized is false after construction and after shutdown(); true is the
\* value initialize() assigns after its test embedding.
BatchCalls == {"generateEmbeddings", "initialize", "generateEmbedding"}

InitBatch ==
  /\ isInitialized \in BOOLEAN
  /\ bCall \in BatchCalls
  /\ bTexts \in 0..MaxTexts
  /\ bCall = "initialize" => bTexts = 0
  /\ bCall = "generateEmbedding" => bTexts = 1
  /\ bPc = "call"
  /\ bDepth = 0
  /\ bI = 0
  /\ bInFlight = {}
  /\ bOrder = <<>>
  /\ bFailed = FALSE
  /\ embeddings = <<>>
  /\ bBatches = 0
  /\ bDelays = 0
  /\ bResp = BatchNoResp

IdleBatch ==
  /\ isInitialized = FALSE
  /\ bCall = "none"
  /\ bTexts = 0
  /\ bPc = "idle"
  /\ bDepth = 0
  /\ bI = 0
  /\ bInFlight = {}
  /\ bOrder = <<>>
  /\ bFailed = FALSE
  /\ embeddings = <<>>
  /\ bBatches = 0
  /\ bDelays = 0
  /\ bResp = BatchNoResp

batchFrame == <<isInitialized, bCall, bTexts>>

\* initialize() called from outside: `if (this.isInitialized) return`, else
\* the try block with the test embedding.
InitializeEnter ==
  /\ bPc = "call"
  /\ bCall = "initialize"
  /\ IF isInitialized
       THEN /\ bResp' = [kind |-> "returned", embeddings |-> <<>>]
            /\ bPc' = "done"
            /\ UNCHANGED bDepth
       ELSE /\ bPc' = "initialize"
            /\ bDepth' = 1
            /\ UNCHANGED bResp
  /\ UNCHANGED <<bI, bInFlight, bOrder, bFailed, embeddings, bBatches, bDelays>>
  /\ UNCHANGED batchFrame
  /\ UNCHANGED otherThanBatch

\* generateEmbedding(text) called from outside: the same guard as
\* generateEmbeddings, then client.models.embedContent.
EmbeddingEnter ==
  /\ bPc = "call"
  /\ bCall = "generateEmbedding"
  /\ IF isInitialized
       THEN bPc' = "embedContent" /\ UNCHANGED bDepth
       ELSE bPc' = "initialize" /\ bDepth' = 1
  /\ UNCHANGED <<bI, bInFlight, bOrder, bFailed, embeddings, bBatches, bDelays,
                 bResp>>
  /\ UNCHANGED batchFrame
  /\ UNCHANGED otherThanBatch

\* embedContent answers: the vector is returned, or the catch throws.
EmbeddingSettles ==
  /\ bPc = "embedContent"
  /\ \E ok \in BOOLEAN :
       /\ bResp' = IF ok THEN [kind |-> "returned", embeddings |-> <<1>>]
                         ELSE BatchError
       /\ bFailed' = ~ok
  /\ bPc' = "done"
  /\ UNCHANGED <<bDepth, bI, bInFlight, bOrder, embeddings, bBatches, bDelays>>
  /\ UNCHANGED batchFrame
  /\ UNCHANGED otherThanBatch

\* if (!this.isInitialized) await this.initialize()
BatchEnter ==
  /\ bPc = "call"
  /\ bCall = "generateEmbeddings"
  /\ IF isInitialized
       THEN bPc' = "loop" /\ UNCHANGED bDepth
       ELSE bPc' = "initialize" /\ bDepth' = 1
  /\ UNCHANGED <<bI, bInFlight, bOrder, bFailed, embeddings, bBatches, bDelays,
                 bResp>>
  /\ UNCHANGED batchFrame
  /\ UNCHANGED otherThanBatch

\* initialize() calls generateEmbedding("test") before it sets the flag, and
\* generateEmbedding, finding the flag unset, calls initialize() again: both
\* calls are made before any await gives control back.
InitializeRecurses ==
  /\ bPc = "initialize"
  /\ bDepth < MaxDepth
  /\ bDepth' = bDepth + 1
  /\ UNCHANGED <<bPc, bI, bInFlight, bOrder, bFailed, embeddings, bBatches,
                 bDelays, bResp>>
  /\ UNCHANGED batchFrame
  /\ UNCHANGED otherThanBatch

\* The stack is exhausted: the innermost call rejects, every catch rethrows,
\* and the await of generateEmbeddings, which is outside its try, rejects.
InitializeOverflows ==
  /\ bPc = "initialize"
  /\ bDepth = MaxDepth
  /\ bResp' = BatchError
  /\ bPc' = "done"
  /\ UNCHANGED <<bDepth, bI, bInFlight, bOrder, bFailed, embeddings, bBatches,
                 bDelays>>
  /\ UNCHANGED batchFrame
  /\ UNCHANGED otherThanBatch

\* The loop test; batch.map(text => this.generateEmbedding(text)) issues the
\* calls of the batch, and after the loop `return embeddings`.
BatchStart ==
  /\ bPc = "loop"
  /\ IF bI < bTexts
       THEN /\ bInFlight' = BatchOf(bTexts, bI)
            /\ bOrder' = <<>>
            /\ bBatches' = bBatches + 1
            /\ bPc' = "batch"
            /\ UNCHANGED bResp
       ELSE /\ bResp' = [kind |-> "returned", embeddings |-> embeddings]
            /\ bPc' = "done"
            /\ UNCHANGED <<bInFlight, bOrder, bBatches>>
  /\ UNCHANGED <<bDepth, bI, bFailed, embeddings, bDelays>>
  /\ UNCHANGED batchFrame
  /\ UNCHANGED otherThanBatch

\* One generateEmbedding call of the batch settles: a vector, or an error.
EmbedSettles ==
  /\ bPc = "batch"
  /\ ~bFailed
  /\ \E k \in bInFlight :
       /\ bInFlight' = bInFlight \ {k}
       /\ \/ bOrder' = Append(bOrder, k) /\ UNCHANGED bFailed
          \/ bFailed' = TRUE /\ UNCHANGED bOrder
  /\ UNCHANGED <<bPc, bDepth, bI, embeddings, bBatches, bDelays, bResp>>
  /\ UNCHANGED batchFrame
  /\ UNCHANGED otherThanBatch

\* Promise.all rejects on the first rejected call; the catch throws.
BatchRejects ==
  /\ bPc = "batch"
  /\ bFailed
  /\ bResp' = BatchError
  /\ bPc' = "done"
  /\ UNCHANGED <<bDepth, bI, bInFlight, bOrder, bFailed, embeddings, bBatches,
                 bDelays>>
  /\ UNCHANGED batchFrame
  /\ UNCHANGED otherThanBatch

\* Promise.all resolves; embeddings.push(...batchResults); then the delay when
\* i + batchSize < texts.length, else i += batchSize.
BatchSettles ==
  /\ bPc = "batch"
  /\ ~bFailed
  /\ bInFlight = {}
  /\ embeddings' = embeddings \o BatchResults(bTexts, bI, bOrder)
  /\ IF bI + BatchSize < bTexts
       THEN bPc' = "delay" /\ UNCHANGED bI
       ELSE bPc' = "loop" /\ bI' = bI + BatchSize
  /\ UNCHANGED <<bDepth, bInFlight, bOrder, bFailed, bBatches, bDelays, bResp>>
  /\ UNCHANGED batchFrame
  /\ UNCHANGED otherThanBatch

\* await new Promise(resolve => setTimeout(resolve, 100)); i += batchSize
BatchDelay ==
  /\ bPc = "delay"
  /\ bDelays' = bDelays + 1
  /\ bI' = bI + BatchSize
  /\ bPc' = "loop"
  /\ UNCHANGED <<bDepth, bInFlight, bOrder, bFailed, embeddings, bBatches, bResp>>
  /\ UNCHANGED batchFrame
  /\ UNCHANGED otherThanBatch

NextBatch ==
  \/ InitializeEnter
  \/ EmbeddingEnter
  \/ EmbeddingSettles
  \/ BatchEnter
  \/ InitializeRecurses
  \/ InitializeOverflows
  \/ BatchStart
  \/ EmbedSettles
  \/ BatchRejects
  \/ BatchSettles
  \/ BatchDelay

(***************************************************************************)
(* Text preprocessing: preprocessText                                      *)
(***************************************************************************)

\* ---- bound: characters of the input text
MaxChars == 5

\* ---- program constant: substring(0, 8000)
PreprocessLimit == 8000

\* One character of each kind: a word character, two whitespace characters,
\* and one that [^\w\s\-.,;:!?()] matches.
Chars == {"a", " ", "\t", "@"}

\* \s
IsWhitespace(c) == c \in {" ", "\t"}

\* not matched by [^\w\s\-.,;:!?()]
IsAllowed(c) == c # "@"

RECURSIVE DropWhitespace(_)
DropWhitespace(t) ==
  IF t # <<>> /\ IsWhitespace(Head(t)) THEN DropWhitespace(Tail(t)) ELSE t

\* .replace(/\s+/g, ' ')
RECURSIVE CollapseWhitespace(_)
CollapseWhitespace(t) ==
  IF t = <<>> THEN <<>>
  ELSE IF IsWhitespace(Head(t))
    THEN <<" ">> \o CollapseWhitespace(DropWhitespace(t))
    ELSE <<Head(t)>> \o CollapseWhitespace(Tail(t))

\* .replace(/[^\w\s\-.,;:!?()]/g, '')
RemoveDisallowed(t) == SelectSeq(t, IsAllowed)

RECURSIVE DropTrailingWhitespace(_)
DropTrailingWhitespace(t) ==
  IF t # <<>> /\ IsWhitespace(t[Len(t)])
    THEN DropTrailingWhitespace(SubSeq(t, 1, Len(t) - 1))
    ELSE t

\* .trim()
JsTrim(t) == DropTrailingWhitespace(DropWhitespace(t))

\* .substring(0, end)
JsSubstring(t, end) == SubSeq(t, 1, Min(end, Len(t)))

\* preprocessText: the four calls in the order of the chain.
PreprocessText(t) ==
  JsSubstring(JsTrim(RemoveDisallowed(CollapseWhitespace(t))), PreprocessLimit)

InitPrep ==
  /\ pText \in SeqsUpTo(Chars, MaxChars)
  /\ pPc = "call"
  /\ pOnce = <<>>
  /\ pTwice = <<>>

IdlePrep ==
  /\ pText = <<>>
  /\ pPc = "idle"
  /\ pOnce = <<>>
  /\ pTwice = <<>>

\* preprocessText(text)
PrepOnce ==
  /\ pPc = "call"
  /\ pOnce' = PreprocessText(pText)
  /\ pPc' = "once"
  /\ UNCHANGED <<pText, pTwice>>
  /\ UNCHANGED otherThanPrep

\* preprocessText applied to its own output
PrepTwice ==
  /\ pPc = "once"
  /\ pTwice' = PreprocessText(pOnce)
  /\ pPc' = "twice"
  /\ UNCHANGED <<pText, pOnce>>
  /\ UNCHANGED otherThanPrep

NextPrep ==
  \/ PrepOnce
  \/ PrepTwice

(***************************************************************************)
(* Result formatting                                                       *)
(***************************************************************************)

\* ---- bound: entities of a stored document
MaxStoredEntities == 6

\* ---- program constants
PreviewChars == 500
ListPreviewChars == 200
MaxShownEntities == 5

FormatOps == {"searchDocuments", "hybridSearch", "listDocuments"}

\* content.length of the stored documents the model draws from.
ContentLengths == {0, 199, 200, 201, 499, 500, 501}

\* A text is held as a stretch of the stored content: how many of its first
\* characters, and whether '...' follows.
Content(n) == [chars |-> n, ellipsis |-> FALSE]

\* Mutant of Preview: the marker is appended to every preview.
PreviewAlwaysMarked(content, limit) ==
  [chars |-> Min(content.chars, limit), ellipsis |-> TRUE]

\* content.substring(0, limit) + (content.length > limit ? '...' : '')
Preview(content, limit) ==
  [chars |-> Min(content.chars, limit), ellipsis |-> content.chars > limit]

\* The preview length of the handler.
PreviewLimit(op) == IF op = "listDocuments" THEN ListPreviewChars ELSE PreviewChars

\* An optional list: absent (undefined), or a list.
Absent == [present |-> FALSE, list |-> <<>>]
Present(list) == [present |-> TRUE, list |-> list]

\* relevantEntities?.slice(0, 5) || []
ShownEntities(entities) ==
  IF entities.present
    THEN Present(JsSlice(entities.list, 0, MaxShownEntities))
    ELSE Present(<<>>)

\* handleListDocuments sets topEntities only for a document with entities.
TopEntities(entities) ==
  IF Len(entities) > 0
    THEN Present(JsSlice(entities, 0, MaxShownEntities))
    ELSE Absent

NotFormatted == [content |-> Content(0), entities |-> Absent]

\* The entities of a document are told apart by their position.  A search
\* result's relevantEntities are the document's medicalEntities, or absent.
InitFormat ==
  /\ fOp \in FormatOps
  /\ \E n \in ContentLengths, e \in 0..MaxStoredEntities :
       fDocument = [content |-> Content(n), medicalEntities |-> Ascending(1, e)]
  /\ fEntities \in {Absent, Present(fDocument.medicalEntities)}
  /\ fOp = "listDocuments" => fEntities.present
  /\ fOriginal = fDocument
  /\ fPc = "call"
  /\ fFormatted = NotFormatted

IdleFormat ==
  /\ fOp = "none"
  /\ fDocument = [content |-> Content(0), medicalEntities |-> <<>>]
  /\ fEntities = Absent
  /\ fOriginal = fDocument
  /\ fPc = "idle"
  /\ fFormatted = NotFormatted

\* The map callback of handleSearchDocuments and handleHybridSearch.
FormatResult ==
  /\ fPc = "call"
  /\ fOp \in {"searchDocuments", "hybridSearch"}
  /\ fFormatted' = [content |-> Preview(fDocument.content, PreviewLimit(fOp)),
                    entities |-> ShownEntities(fEntities)]
  /\ fPc' = "done"
  /\ UNCHANGED <<fOp, fDocument, fEntities, fOriginal>>
  /\ UNCHANGED otherThanFormat

\* The map callback of handleListDocuments.
FormatListed ==
  /\ fPc = "call"
  /\ fOp = "listDocuments"
  /\ fFormatted' = [content |-> Preview(fDocument.content, PreviewLimit(fOp)),
                    entities |-> TopEntities(fDocument.medicalEntities)]
  /\ fPc' = "done"
  /\ UNCHANGED <<fOp, fDocument, fEntities, fOriginal>>
  /\ UNCHANGED otherThanFormat

NextFormat ==
  \/ FormatResult
  \/ FormatListed

(***************************************************************************)
(* Entity extraction: handleExtractMedicalEntities                         *)
(***************************************************************************)

\* ---- bound of the extraction model: the stored documents
NStored == 2

StoredIds == 1..NStored
\* An id no stored document has.
UnknownId == NStored + 1

\* Values of the medicalEntities field: the lists the NER call may yield.
EntityLists == {<<>>, <<"fever">>}

ExtractNoResp == [success |-> "none", documentUpdated |-> FALSE]
ExtractError == [success |-> "false", documentUpdated |-> FALSE]

\* documentUpdated: !!args.documentId
DocumentUpdated(documentId) == documentId # NoDocument

\* updateOne({_id: id}, ...) matches the document whose _id equals the string
\* id; an ObjectId never equals a string.
UpdateMatches(id) == id \in StoredIds /\ xIdType = "string"

InitExtract ==
  /\ xArgs \in [documentId : {NoDocument} \cup StoredIds \cup {UnknownId},
                entities : EntityLists]
  /\ xIdType \in IdTypes
  /\ xDocs \in [StoredIds -> [medicalEntities : EntityLists, content : {"text"}]]
  /\ xBefore = xDocs
  /\ xPc = "call"
  /\ xModified = FALSE
  /\ xResp = ExtractNoResp

IdleExtract ==
  /\ xArgs = [documentId |-> NoDocument, entities |-> <<>>]
  /\ xIdType = "string"
  /\ xDocs = [d \in StoredIds |-> [medicalEntities |-> <<>>, content |-> "text"]]
  /\ xBefore = xDocs
  /\ xPc = "idle"
  /\ xModified = FALSE
  /\ xResp = ExtractNoResp

\* nerService.extractEntities(args.text) and the entityTypes filter; a failure
\* reaches the catch.  Then `if (args.documentId)`.
ExtractEntities ==
  /\ xPc = "call"
  /\ \E ok \in BOOLEAN :
       IF ~ok THEN xPc' = "done" /\ xResp' = ExtractError
       ELSE /\ xPc' = IF xArgs.documentId # NoDocument THEN "update" ELSE "respond"
            /\ UNCHANGED xResp
  /\ UNCHANGED <<xArgs, xIdType, xDocs, xBefore, xModified>>
  /\ UNCHANGED otherThanExtract

\* updateDocument(args.documentId, {medicalEntities: entities}): updateOne with
\* $set, returning modifiedCount > 0; the handler drops the returned value.  A
\* failure is rethrown and reaches the handler's catch.
UpdateDocument ==
  /\ xPc = "update"
  /\ \E ok \in BOOLEAN :
       IF ~ok THEN /\ xPc' = "done" /\ xResp' = ExtractError
                   /\ UNCHANGED <<xDocs, xModified>>
       ELSE /\ xDocs' = IF UpdateMatches(xArgs.documentId)
                          THEN [xDocs EXCEPT ![xArgs.documentId].medicalEntities =
                                               xArgs.entities]
                          ELSE xDocs
            /\ xModified' = (xDocs' # xDocs)
            /\ xPc' = "respond"
            /\ UNCHANGED xResp
  /\ UNCHANGED <<xArgs, xIdType, xBefore>>
  /\ UNCHANGED otherThanExtract

\* The success response.
ExtractRespond ==
  /\ xPc = "respond"
  /\ xResp' = [success |-> "true",
               documentUpdated |-> DocumentUpdated(xArgs.documentId)]
  /\ xPc' = "done"
  /\ UNCHANGED <<xArgs, xIdType, xDocs, xBefore, xModified>>
  /\ UNCHANGED otherThanExtract

NextExtract ==
  \/ ExtractEntities
  \/ UpdateDocument
  \/ ExtractRespond

(***************************************************************************)
(* Specifications                                                          *)
(***************************************************************************)

\* Each operation starts from its own initial states, the others not called.
StartChunk ==
  InitChunk /\ IdleLoad /\ IdleSearch /\ IdleUpload /\ IdleServer /\ IdleSim
  /\ IdleBatch /\ IdlePrep /\ IdleFormat /\ IdleExtract
StartLoad ==
  IdleChunk /\ InitLoad /\ IdleSearch /\ IdleUpload /\ IdleServer /\ IdleSim
  /\ IdleBatch /\ IdlePrep /\ IdleFormat /\ IdleExtract
StartSearch ==
  IdleChunk /\ IdleLoad /\ InitSearch /\ IdleUpload /\ IdleServer /\ IdleSim
  /\ IdleBatch /\ IdlePrep /\ IdleFormat /\ IdleExtract
StartHybrid ==
  IdleChunk /\ IdleLoad /\ InitHybrid /\ IdleUpload /\ IdleServer /\ IdleSim
  /\ IdleBatch /\ IdlePrep /\ IdleFormat /\ IdleExtract
StartUpload ==
  IdleChunk /\ IdleLoad /\ IdleSearch /\ InitUpload /\ IdleServer /\ IdleSim
  /\ IdleBatch /\ IdlePrep /\ IdleFormat /\ IdleExtract
StartServer ==
  IdleChunk /\ IdleLoad /\ IdleSearch /\ IdleUpload /\ InitServer /\ IdleSim
  /\ IdleBatch /\ IdlePrep /\ IdleFormat /\ IdleExtract

SpecChunk == StartChunk /\ [][NextChunk]_vars
SpecLoad == StartLoad /\ [][NextLoad]_vars
StartSimilar ==
  IdleChunk /\ IdleLoad /\ InitSimilar /\ IdleUpload /\ IdleServer /\ IdleSim
  /\ IdleBatch /\ IdlePrep /\ IdleFormat /\ IdleExtract
SpecSimilar == StartSimilar /\ [][NextSimilar]_vars
StartLifecycle ==
  IdleChunk /\ InitLifecycle /\ IdleSearch /\ IdleUpload /\ IdleServer /\ IdleSim
  /\ IdleBatch /\ IdlePrep /\ IdleFormat /\ IdleExtract
SpecLifecycle == StartLifecycle /\ [][NextLifecycle]_vars
SpecSearch == StartSearch /\ [][NextSearch]_vars
SpecHybrid == StartHybrid /\ [][NextHybrid]_vars
SpecUpload == StartUpload /\ [][NextUpload]_vars
StartSim ==
  IdleChunk /\ IdleLoad /\ IdleSearch /\ IdleUpload /\ IdleServer /\ InitSim
  /\ IdleBatch /\ IdlePrep /\ IdleFormat /\ IdleExtract

StartBatch ==
  IdleChunk /\ IdleLoad /\ IdleSearch /\ IdleUpload /\ IdleServer /\ IdleSim
  /\ InitBatch /\ IdlePrep /\ IdleFormat /\ IdleExtract

SpecServer == StartServer /\ [][NextServer]_vars
SpecSim == StartSim /\ [][NextSim]_vars
SpecBatch == StartBatch /\ [][NextBatch]_vars

StartPrep ==
  IdleChunk /\ IdleLoad /\ IdleSearch /\ IdleUpload /\ IdleServer /\ IdleSim
  /\ IdleBatch /\ InitPrep /\ IdleFormat /\ IdleExtract

SpecPrep == StartPrep /\ [][NextPrep]_vars

StartFormat ==
  IdleChunk /\ IdleLoad /\ IdleSearch /\ IdleUpload /\ IdleServer /\ IdleSim
  /\ IdleBatch /\ IdlePrep /\ InitFormat /\ IdleExtract

SpecFormat == StartFormat /\ [][NextFormat]_vars

StartExtract ==
  IdleChunk /\ IdleLoad /\ IdleSearch /\ IdleUpload /\ IdleServer /\ IdleSim
  /\ IdleBatch /\ IdlePrep /\ IdleFormat /\ InitExtract

SpecExtract == StartExtract /\ [][NextExtract]_vars

(***************************************************************************)
(* Properties                                                              *)
(***************************************************************************)

\* C1: whenever handleChunkAndEmbed has fixed a chunkSize and an overlap with
\* overlap >= chunkSize, chunkText executes no loop body and the handler ends
\* with an error.
C1_OverlapFailsFast ==
  (chunkSize > 0 /\ overlap >= chunkSize) =>
    (iter = 0 /\ (cPc = "done" => cResp.success = "false"))

LoadFailed(kinds) == {c \in Callers : lKind[c] \in kinds /\ lPc[c] = "loadFailed"}

\* C2: the model load is started at most once: every pipeline(...) call beyond
\* the first follows a load that failed, for loadEmbedder and for
\* LocalEmbeddingService alike.
C2_LoadStartedOnce ==
  /\ toolLoads <= 1 + Cardinality(LoadFailed({"tool"}))
  /\ svcLoads <= 1 + Cardinality(LoadFailed({"initialize", "generate"}))

\* C3: no caller has returned from initialize(), or has gone on to call the
\* embedder, while the embedder is still null.
C3_CallersAwaitLoad ==
  \A c \in Callers :
    /\ lPc[c] \in {"initReturned", "invoke"} => svcEmbedder = "loaded"
    /\ lPc[c] # "invokedNull"

\* C4: in vector mode (handleSearchDocuments), a failed vector query is
\* followed by lexical search with the caller's query text, and the substring
\* scan is issued only right after a failed lexical search.
C4_VectorThenLexicalThenSubstring ==
  sOp = "searchDocuments" =>
    \A k \in 1..Len(sTrace) :
      /\ (sTrace[k].tier = "VECTOR" /\ ~sTrace[k].ok /\ k < Len(sTrace)) =>
           (sTrace[k + 1].tier = "LEXICAL" /\ sTrace[k + 1].query = sArgs.query)
      /\ sTrace[k].tier = "SUBSTRING" =>
           (k > 1 /\ sTrace[k - 1].tier = "LEXICAL" /\ ~sTrace[k - 1].ok)

Ids(results) == {results[k].id : k \in 1..Len(results)}

\* C5: when the search is called with a patientId filter, every result of the
\* response belongs to that patient.
C5_ResultsSatisfyFilter ==
  sArgs.patientId # "none" =>
    \A d \in Ids(sResp.results) : Patient(d) = sArgs.patientId

HybridDone == IsHybrid /\ sPc = "done" /\ sResp.success = "true"

\* C6: the list hybridSearch returns holds no two entries with the same
\* document id.
C6_NoDuplicateIds ==
  HybridDone =>
    \A a, b \in 1..Len(sResults) : sResults[a].id = sResults[b].id => a = b

ScoreIn(results, d) == (CHOOSE r \in {results[k] : k \in 1..Len(results)} : r.id = d).score

\* The fused score the fusion rule gives document d: its vector score times
\* the vector weight if the vector sub-search found it, plus its lexical score
\* times the text weight if the lexical sub-search found it.
ExpectedFused(d) ==
  (IF d \in Ids(vectorResults) THEN ScoreIn(vectorResults, d) * VectorWeight ELSE 0)
  + (IF d \in Ids(textResults) THEN ScoreIn(textResults, d) * TextWeight ELSE 0)

\* C7: every entry of the hybrid result carries the weighted vector score,
\* the weighted lexical score, or their sum when both sub-searches found it.
C7_FusedScore ==
  HybridDone =>
    \A k \in 1..Len(sResults) : sResults[k].score = ExpectedFused(sResults[k].id)

\* The fused entries: the values of combinedResults once both lists are merged.
FusedEntries == Combined(vectorResults, textResults, VectorWeight, TextWeight)

\* The entries of `fused` that the list `returned` does not hold.
LeftOut(fused, returned) ==
  {fused[n] : n \in {m \in 1..Len(fused) :
                       \A r \in 1..Len(returned) : returned[r].key # fused[m].key}}

\* C8: hybridSearch returns at most `limit` entries, each of them a fused
\* entry, in non-increasing order of fused score, and no fused entry left
\* out scores strictly higher than a returned one.
C8_TopLimitByScore ==
  HybridDone =>
    LET fused == FusedEntries
        left == LeftOut(fused, sResults)
    IN  /\ Len(sResults) <= Limit
        /\ \A k \in 1..Len(sResults) : \E n \in 1..Len(fused) : sResults[k] = fused[n]
        /\ \A a, b \in 1..Len(sResults) : a < b => sResults[a].score >= sResults[b].score
        /\ \A e \in left : \A k \in 1..Len(sResults) : e.score <= sResults[k].score

\* C8 witness: a hybrid search that had to drop a fused entry scoring lower
\* than a returned one, with an entry added by the lexical list returned ahead
\* of an entry seeded by the vector list that scores lower.
C8_Witness ==
  /\ HybridDone
  /\ Len(sResults) = Limit
  /\ \E a, b \in 1..Len(sResults) :
       /\ a < b
       /\ sResults[a].score > sResults[b].score
       /\ \E n \in 1..Len(textResults) : textResults[n].key = sResults[a].key
       /\ \E n \in 1..Len(vectorResults) : vectorResults[n].key = sResults[b].key
  /\ \E e \in LeftOut(FusedEntries, sResults) :
       \E k \in 1..Len(sResults) : e.score < sResults[k].score

VectorQueryFailed == \E k \in 1..Len(sTrace) : sTrace[k].tier = "VECTOR" /\ ~sTrace[k].ok
LexicalQueryOk == \E k \in 1..Len(sTrace) : sTrace[k].tier = "LEXICAL" /\ sTrace[k].ok

\* C9: when the vector query failed and lexical search returned a hit, the
\* hybrid search answers success: true with a non-empty result that holds
\* the lexical hits.
C9_HybridKeepsLexicalHits ==
  (IsHybrid /\ sPc = "done" /\ VectorQueryFailed /\ LexicalQueryOk
      /\ textResults # <<>>) =>
    /\ sResp.success = "true"
    /\ sResp.results # <<>>
    /\ Ids(textResults) \subseteq Ids(sResp.results)

\* C10: a retrieval operation all of whose storage calls failed answers
\* success: false.
C10_StorageDownIsAnError ==
  (sPc = "done" /\ sTrace # <<>> /\ \A k \in 1..Len(sTrace) : ~sTrace[k].ok) =>
    sResp.success = "false"

\* What the substring query number k returned: it stands in for the search
\* whose failure it follows.
SubstringResults(k) ==
  IF k > 1 /\ sTrace[k - 1].tier = "VECTOR" THEN vectorResults ELSE textResults

SubstringQueries == {k \in 1..Len(sTrace) : sTrace[k].tier = "SUBSTRING"}

\* C11: textSearchFallback never propagates an exception: a failed substring
\* query yields the empty list and the handler still answers success: true;
\* every hit a substring query returns carries the score 0.3.
C11_SubstringTierNeverThrows ==
  \A k \in SubstringQueries :
    /\ ~sTrace[k].ok => SubstringResults(k) = <<>>
    /\ \A n \in 1..Len(SubstringResults(k)) : SubstringResults(k)[n].score = FallbackScore
    /\ sPc = "done" => sResp.success = "true"

\* C11 witness: one substring query failed, another returned hits, and the
\* handler has answered.
C11_Witness ==
  /\ sPc = "done"
  /\ \E k \in SubstringQueries : ~sTrace[k].ok
  /\ \E k \in SubstringQueries : sTrace[k].ok /\ SubstringResults(k) # <<>>

VectorQueryOk == \E k \in 1..Len(sTrace) : sTrace[k].tier = "VECTOR" /\ sTrace[k].ok

\* C12: a search called with threshold 0 that answers success: true returns
\* every candidate the underlying search produced: the whole list of
\* hybridSearch, or every document the vector aggregation yields with no
\* score cutoff.
C12_ThresholdZeroAdmitsAll ==
  (sArgs.threshold = 0 /\ sPc = "done" /\ sResp.success = "true") =>
    IF IsHybrid
      THEN sResp.results = sResults
      ELSE VectorQueryOk =>
             Ids(sResp.results) = Ids(VectorAggregate(Limit, 0, Filter))

\* Thresholds a caller may pass, for the comparison of two calls.
ComparedThresholds == {0, 10, 50}

\* The results this call returns when its threshold argument is `arg`, the
\* query, the corpus and the outcome of every collaborator call being those
\* of the current state: handleHybridSearch's filter over hybridSearch's
\* list, or vectorSearch's aggregation in handleSearchDocuments (a fallback
\* tier does not read the threshold).
ResultsWith(arg) ==
  IF IsHybrid THEN FilterByThreshold(sResults, EffectiveThreshold(arg))
  ELSE IF VectorQueryOk THEN VectorAggregate(Limit, EffectiveThreshold(arg), Filter)
  ELSE sResults

\* C13: for the query, corpus and collaborator outcomes of a finished search,
\* the response is the one computed from its threshold, and of two thresholds
\* t1 <= t2 the larger never returns more results than the smaller.
C13_ThresholdMonotone ==
  (sPc = "done" /\ sResp.success = "true") =>
    /\ Len(sResp.results) = Len(ResultsWith(sArgs.threshold))
    /\ \A t1, t2 \in ComparedThresholds :
         t1 <= t2 => Len(ResultsWith(t2)) <= Len(ResultsWith(t1))

\* C14: a search whose query is the empty string is rejected: it answers
\* success: false and returns no document.
C14_EmptyQueryRejected ==
  (sArgs.query = "" /\ sPc = "done") =>
    (sResp.success = "false" /\ sResp.results = <<>>)

\* The chunks whose pass of the embedding loop failed.
FailedChunks == {cAttempts[k].chunk : k \in {n \in 1..Len(cAttempts) : ~cAttempts[n].ok}}

\* C15: once the embedding loop has run, with N chunks of which k failed, the
\* handler answers success: true with totalChunks = N, successfulChunks =
\* N - k and N - k chunkIds; exactly the chunks that did not fail are stored,
\* and each chunk was tried once, in order.
C15_PartialFailureIngestion ==
  (cPc = "done" /\ (cAttempts # <<>> \/ cResp.success = "true")) =>
    LET N == Len(chunks)
        k == Cardinality(FailedChunks)
    IN  /\ cResp.success = "true"
        /\ cResp.totalChunks = N
        /\ cResp.successfulChunks = N - k
        /\ Len(cResp.chunkIds) = N - k
        /\ Len(stored) = N - k
        /\ {stored[m][1] : m \in 1..Len(stored)} = (0..(N - 1)) \ FailedChunks
        /\ \A m \in 1..Len(stored) : stored[m][2] = N
        /\ Len(cAttempts) = N
        /\ \A m \in 1..N : cAttempts[m].chunk = m - 1

\* C15 witness: a finished ingestion of at least three chunks, one of which
\* failed between two that were stored.
C15_Witness ==
  /\ cPc = "done"
  /\ Len(chunks) >= 3
  /\ \E a, b, c \in 1..Len(cAttempts) :
       a < b /\ b < c /\ cAttempts[a].ok /\ ~cAttempts[b].ok /\ cAttempts[c].ok

AllStages == <<"text", "entities", "embedding", "insert">>

\* C16: a document is inserted only after text resolution, entity tagging and
\* embedding have succeeded in that order, with a text that is not empty after
\* trimming and processed = true; an upload that fails at any stage inserts
\* nothing and answers success: false.
C16_UploadAllOrNothing ==
  /\ \A k \in 1..Len(uStages) : uStages[k] = AllStages[k]
  /\ Len(documents) <= 1
  /\ documents # <<>> <=> uStages = AllStages
  /\ \A k \in 1..Len(documents) :
       /\ documents[k].metadata.processed = TRUE
       /\ ~TrimIsEmpty(documents[k].content)
       /\ documents[k].medicalEntities # Undef
       /\ documents[k].embedding = "vector"
  /\ uPc = "done" =>
       /\ uResp.success = (IF uStages = AllStages THEN "true" ELSE "false")
       /\ uResp.success = "false" => documents = <<>>

\* C16 witness: an upload from a file whose caller sent processed: false and
\* whose content argument was blank, inserted after all stages.
C16_Witness ==
  /\ uPc = "done"
  /\ uResp.success = "true"
  /\ uArgs.file # "none" /\ uArgs.content = "blank" /\ uArgs.processed = "false"
  /\ Len(documents) = 1

\* The name of the strategy a storage tier implements.
StrategyOf(tier) ==
  CASE tier = "VECTOR" -> "vector"
    [] tier = "LEXICAL" -> "text"
    [] tier = "SUBSTRING" -> "substring"
    [] OTHER -> "none"

\* The strategy that produced the results of a finished search: in
\* handleSearchDocuments the tier of the last search query, whose list is the
\* one returned; in handleHybridSearch "hybrid" when the vector and the
\* lexical query both answered, "degraded" when a fallback tier stood in.
ActualStrategy ==
  IF IsHybrid
    THEN IF VectorQueryOk /\ LexicalQueryOk THEN "hybrid" ELSE "degraded"
    ELSE StrategyOf(sTrace[Len(sTrace)].tier)

\* C17: a retrieval response that answers success: true names the strategy
\* that produced its results.
C17_ResponseNamesStrategy ==
  (sPc = "done" /\ sResp.success = "true") => sResp.searchType = ActualStrategy

C19_DimensionMismatchFails ==
  /\ \A k \in 1..Len(mSims) :
       Len(mCandidates[k]) # Len(mQuery) => mSims[k].kind = "error"
  /\ mPc = "done" =>
       /\ mResp.kind = "returned" =>
            \A n \in 1..Len(mResp.items) :
              Len(mCandidates[mResp.items[n].id]) = Len(mQuery)
       /\ (\E k \in 1..Len(mCandidates) : Len(mCandidates[k]) # Len(mQuery))
            => mResp.kind = "error"

\* A call with one candidate of the query's length, which alone would have
\* been returned, and one of another length: the call failed.
C19_Witness ==
  /\ mPc = "done"
  /\ Len(mCandidates) = 2
  /\ Len(mQuery) = 2
  /\ mCandidates[1] = mQuery
  /\ mQuery = <<1, 1>>
  /\ Len(mCandidates[2]) = 1
  /\ mSims[1].kind = "number"
  /\ mSims[2].kind = "error"
  /\ mResp.kind = "error"

\* Batches a call on n texts needs: ceil(n / batchSize).
BatchesFor(n) == (n + BatchSize - 1) \div BatchSize

\* C20: generateEmbeddings on n texts has at most 5 embed calls in flight,
\* all of the current batch of consecutive texts, every text before the batch
\* being embedded already; one delay lies between two consecutive batches and
\* none after the last; and, no embed call failing, the call returns the n
\* vectors in input order.
C20_BatchesOfFive ==
  bCall = "generateEmbeddings" =>
    /\ Cardinality(bInFlight) <= BatchSize
    /\ bPc = "batch" =>
         /\ bInFlight \subseteq BatchOf(bTexts, bI)
         /\ embeddings = Ascending(1, bI)
         /\ bDelays = bBatches - 1
    /\ (bPc = "done" /\ ~bFailed) =>
         /\ bResp.kind = "returned"
         /\ bResp.embeddings = Ascending(1, bTexts)
         /\ bBatches = BatchesFor(bTexts)
         /\ bDelays = Max(bBatches - 1, 0)

\* Words two windows have in common: those from the start of the later window
\* to the end of the earlier one.
SharedWords(k) ==
  LET step == chunkSize - overlap
  IN  Max(Min((k - 1) * step + chunkSize, Len(cWords)) - k * step, 0)

\* C21: when chunkText has returned, was called with overlap < chunkSize and
\* its length filter dropped no window, chunk k is the window of the words that
\* starts at word (k - 1) * (chunkSize - overlap), no chunk has more than
\* chunkSize words, every chunk but the last has exactly chunkSize words, and
\* two consecutive chunks share exactly `overlap` words.
C21_WindowsAdvanceByStep ==
  (cPc \in {"embed", "done"} /\ iter > 0 /\ overlap < chunkSize
     /\ Len(chunks) = iter) =>
    \A k \in 1..Len(chunks) :
      /\ chunks[k] = JsSlice(cWords, (k - 1) * (chunkSize - overlap),
                             (k - 1) * (chunkSize - overlap) + chunkSize)
      /\ Len(chunks[k]) <= chunkSize
      /\ k < Len(chunks) =>
           /\ Len(chunks[k]) = chunkSize
           /\ SharedWords(k) = overlap

\* The threshold of the vector-only search in hybridSearch's catch, in
\* hundredths.
RelaxedThreshold == 50

\* The ids of a result list, in order.
IdSeq(results) == [k \in 1..Len(results) |-> results[k].id]

\* C22: a hybrid search whose vector query failed goes on to a second,
\* vector-only query before any lexical or substring query, and what
\* hybridSearch returns is the result of the vector-only search with limit
\* `limit` and threshold 0.5.
C22_VectorFailureDegradesToVectorOnly ==
  (HybridDone /\ VectorQueryFailed) =>
    /\ \E k \in 1..Len(sTrace) :
         /\ sTrace[k].tier = "VECTOR"
         /\ \E f \in 1..(k - 1) : sTrace[f].tier = "VECTOR" /\ ~sTrace[f].ok
         /\ \A f \in 1..(k - 1) : sTrace[f].tier = "VECTOR"
    /\ IdSeq(sResults) = IdSeq(VectorAggregate(Limit, RelaxedThreshold, Filter))

\* C23: the per-chunk loop takes the chunks one at a time in increasing
\* index order, each once, and the outcome of a chunk is recorded before the
\* next is taken; every stored chunk document carries the index of its text
\* in the chunk list and the length of that list, so the stored indexes are
\* distinct and lie in 0..totalChunks-1.
C23_ChunksInOrderOneAtATime ==
  /\ Len(cAttempts) = j
  /\ \A k \in 1..Len(cAttempts) : cAttempts[k].chunk = k - 1
  /\ Len(stored) = Cardinality({k \in 1..Len(cAttempts) : cAttempts[k].ok})
  /\ \A m \in 1..Len(stored) :
       /\ stored[m][1] \in 0..(Len(chunks) - 1)
       /\ stored[m][2] = Len(chunks)
       /\ stored[m][3] = chunks[stored[m][1] + 1]
       /\ cAttempts[stored[m][1] + 1].ok
       /\ \A n \in 1..(m - 1) : stored[n][1] < stored[m][1]

\* Three chunks, the first of which failed: the two stored ones carry the
\* indexes 1 and 2.
C23_Witness ==
  /\ cPc = "done"
  /\ Len(chunks) = 3
  /\ Len(cAttempts) = 3
  /\ ~cAttempts[1].ok
  /\ Len(stored) = 2
  /\ stored[1][1] = 1
  /\ stored[2][1] = 2
  /\ chunks[2] # chunks[3]

\* The normal form: no two whitespace characters in a row, only allowed
\* characters, no whitespace at either end, at most 8000 characters.
NormalForm(t) ==
  /\ \A k \in 1..(Len(t) - 1) : ~(IsWhitespace(t[k]) /\ IsWhitespace(t[k + 1]))
  /\ \A k \in 1..Len(t) : IsAllowed(t[k])
  /\ t # <<>> => ~IsWhitespace(t[1]) /\ ~IsWhitespace(t[Len(t)])
  /\ Len(t) <= PreprocessLimit

\* C24: for every text the output of preprocessText is in normal form, and
\* preprocessText applied to its own output gives that output again.
C24_PreprocessNormalForm ==
  /\ pPc \in {"once", "twice"} => NormalForm(pOnce)
  /\ pPc = "twice" => pTwice = pOnce

\* C25: the formatted content is the stored content itself when that has at
\* most 500 characters (200 in a listing) and its first 500 (200) characters
\* followed by '...' otherwise; a search result's relevantEntities are the
\* first min(5, n) of its n entities in order; the stored document is as it
\* was.
C25_PreviewAndEntityCap ==
  /\ fDocument = fOriginal
  /\ fPc = "done" =>
       LET limit == IF fOp = "listDocuments" THEN 200 ELSE 500
           n == fDocument.content.chars
       IN  /\ n <= limit => fFormatted.content = fDocument.content
           /\ n > limit => fFormatted.content = [chars |-> limit, ellipsis |-> TRUE]
           /\ (fOp # "listDocuments" /\ fEntities.present) =>
                /\ fFormatted.entities.present
                /\ Len(fFormatted.entities.list) = Min(5, Len(fEntities.list))
                /\ \A k \in 1..Len(fFormatted.entities.list) :
                     fFormatted.entities.list[k] = fEntities.list[k]

\* A search result with 501 characters and 6 entities, formatted.
C25_Witness ==
  /\ fPc = "done"
  /\ fOp = "searchDocuments"
  /\ fDocument.content.chars = 501
  /\ fEntities.present
  /\ Len(fEntities.list) = 6
  /\ fFormatted.content.ellipsis
  /\ Len(fFormatted.entities.list) = 5

\* Whether the arguments lie in the ranges of the tool's schema.
InSchema ==
  /\ cArgSize = Undef \/ cArgSize \in SchemaMinChunkSize..SchemaMaxChunkSize
  /\ cArgOverlap = Undef \/ cArgOverlap \in 0..SchemaMaxOverlap

\* The value a caller supplied, the documented default standing for an
\* omitted one.
Supplied(arg, default) == IF arg = Undef THEN default ELSE arg

\* C26: for arguments in the schema's ranges with overlap < chunkSize, the
\* handler chunks with the chunkSize and the overlap supplied, and chunkText's
\* loop ends: it runs at most one body per word of the text.
C26_SchemaArgsTerminate ==
  (/\ InSchema
   /\ Supplied(cArgOverlap, DefaultOverlap) < Supplied(cArgSize, DefaultChunkSize)
   /\ cPc \in {"loop", "embed"}) =>
    /\ chunkSize = Supplied(cArgSize, DefaultChunkSize)
    /\ overlap = Supplied(cArgOverlap, DefaultOverlap)
    /\ iter <= Len(cWords)

\* C27: on a service whose flag is unset, initialize() and a first
\* generateEmbedding call do not nest initialize() inside the test embedding
\* of initialize(); when no embed call failed, initialize() ends with the flag
\* set and generateEmbedding ends with a vector.
C27_InitializeTerminates ==
  (bCall \in {"initialize", "generateEmbedding"} /\ ~bFailed) =>
    /\ bDepth <= 1
    /\ bPc = "done" =>
         /\ bResp.kind = "returned"
         /\ bCall = "initialize" => isInitialized
         /\ bCall = "generateEmbedding" => Len(bResp.embeddings) = 1

\* C28: a successful findSimilarCases response holds neither the reference
\* document found by documentId nor any document of the patient given as
\* patientId, whichever tier produced the results.
C28_ReferenceExcluded ==
  (IsSimilar /\ sPc = "done" /\ sResp.success = "true") =>
    \A k \in 1..Len(sResp.results) :
      /\ ReferenceFound => sResp.results[k].id # sArgs.documentId
      /\ sArgs.patientId # "none" =>
           Patient(sResp.results[k].id) # sArgs.patientId

\* C29: when extractMedicalEntities is done, documentUpdated is true only if
\* the update modified a stored document, it is not true for an id no stored
\* document has, and the stored documents differ from those before the call
\* at most in the medicalEntities of the document with the given id.
C29_DocumentUpdatedIsTruthful ==
  xPc = "done" =>
    /\ xResp.documentUpdated => xModified
    /\ xArgs.documentId = UnknownId => ~xResp.documentUpdated
    /\ \A d \in StoredIds :
         /\ xDocs[d].content = xBefore[d].content
         /\ d # xArgs.documentId => xDocs[d] = xBefore[d]

\* A pipeline(...) call of initialize() is pending.
LoadInFlight ==
  \E c \in Callers : lKind[c] \in {"initialize", "generate"} /\ lPc[c] = "loading"

\* The flags agree with the loads, and isReady() with both.
LifecycleConsistent ==
  /\ isLoading <=> LoadInFlight
  /\ IsReady <=> (svcEmbedder = "loaded" /\ ~LoadInFlight)

\* The embedder becomes non-null only in the step in which a pending load
\* ends; a load that ends in failure leaves isLoading false and the embedder
\* null, the state in which initialize() does not return early.
LifecycleStep ==
  /\ (svcEmbedder = "null" /\ svcEmbedder' # "null") =>
       (LoadInFlight /\ ~LoadInFlight')
  /\ \A c \in Callers :
       (lPc[c] = "loading" /\ lPc'[c] = "loadFailed") =>
         (~isLoading' /\ svcEmbedder' = "null" /\ ~InitializeReturnsEarly')

\* C30: in every state of LocalEmbeddingService isLoading is true exactly
\* while a load is in flight, the embedder is set only by a load that
\* succeeds, a failed load leaves isLoading false and the embedder null so
\* that the next call loads again, and isReady() is true exactly when the
\* embedder is loaded and no load is in flight.
C30_LoadingStateIsConsistent ==
  [](LifecycleConsistent) /\ [][LifecycleStep]_vars

\* A load has failed and a later call has started a new one.
C30_Witness ==
  /\ \E c \in Callers : lKind[c] \in {"initialize", "generate"} /\ lPc[c] = "loadFailed"
  /\ LoadInFlight
  /\ isLoading
  /\ svcLoads = 2

====
